---- MODULE Spec2Model ----
(***************************************************************************)
(* Voicemail / answering-machine classifier of the Atlas call service      *)
(* (track1/app/voicemail_detector.py): the four signal extractors, the     *)
(* signal fusion and the detector's statistics; and the background retry   *)
(* of failed calls (retry_call_background in track1/app/main.py with the   *)
(* collection db.calls of track1/app/dao.py).                              *)
(*                                                                         *)
(* Representation.                                                         *)
(*  - A Python str is a sequence of one-character strings, so that lower(),*)
(*    the substring test (in) and re.search are computed on characters.    *)
(*  - An Optional argument is <<>> for None and <<x>> for the value x.     *)
(*  - A dict is a function whose DOMAIN is the set of keys present;        *)
(*    d.get(k, default) is Get(d, k, default).  A key that is present with *)
(*    the value None is listed in the set d["null"] instead (IsNull); the  *)
(*    inputs carry None only in the fields text, confidence, start_offset  *)
(*    and trailing_silence_duration.                                       *)
(*  - Confidences are integers in hundredths (0.98 is 98), signal weights  *)
(*    in tenths (0.8 is 8), start offsets and durations of utterances in   *)
(*    tenths of a second (0.5 s is 5).  The fused confidence is the exact  *)
(*    fraction [num, den] in hundredths.  The arithmetic is exact; on the  *)
(*    inputs of this module the code's float arithmetic takes the same     *)
(*    side of every comparison.                                            *)
(***************************************************************************)
EXTENDS Integers, Sequences, FiniteSets, TLC

(***************************************************************************)
(* Strings                                                                 *)
(***************************************************************************)
UpperChars ==
    <<"A","B","C","D","E","F","G","H","I","J","K","L","M",
      "N","O","P","Q","R","S","T","U","V","W","X","Y","Z">>

LowerChars ==
    <<"a","b","c","d","e","f","g","h","i","j","k","l","m",
      "n","o","p","q","r","s","t","u","v","w","x","y","z">>

\* str.lower() on one character
LowerChar(c) ==
    IF \E i \in DOMAIN UpperChars : UpperChars[i] = c
    THEN LowerChars[CHOOSE i \in DOMAIN UpperChars : UpperChars[i] = c]
    ELSE c

\* str.lower()
Lower(s) == [i \in DOMAIN s |-> LowerChar(s[i])]

\* the Python test  k in s  on strings
Contains(s, k) ==
    \E i \in 1..(Len(s) - Len(k) + 1) : SubSeq(s, i, i + Len(k) - 1) = k

\* " ".join(parts)
RECURSIVE Join(_)
Join(parts) ==
    IF Len(parts) = 0 THEN <<>>
    ELSE IF Len(parts) = 1 THEN parts[1]
    ELSE parts[1] \o <<" ">> \o Join(Tail(parts))

\* d.get(k, default)
Get(d, k, default) == IF k \in DOMAIN d THEN d[k] ELSE default

\* d[k] is None
IsNull(d, k) == "null" \in DOMAIN d /\ k \in d["null"]

\* Optional values
None == <<>>
Some(x) == <<x>>
Val(o) == o[1]

\* sum of a sequence of integers
RECURSIVE SumSeq(_)
SumSeq(q) == IF Len(q) = 0 THEN 0 ELSE Head(q) + SumSeq(Tail(q))

(***************************************************************************)
(* Pattern library (VoicemailPatterns)                                     *)
(***************************************************************************)
VOICEMAIL_KEYWORDS ==
    << <<"l","e","a","v","e"," ","a"," ","m","e","s","s","a","g","e">>,
       <<"l","e","a","v","e"," ","y","o","u","r"," ","m","e","s","s","a","g","e">>,
       <<"a","t"," ","t","h","e"," ","b","e","e","p">>,
       <<"a","f","t","e","r"," ","t","h","e"," ","b","e","e","p">>,
       <<"a","f","t","e","r"," ","t","h","e"," ","t","o","n","e">>,
       <<"a","t"," ","t","h","e"," ","t","o","n","e">>,
       <<"p","l","e","a","s","e"," ","r","e","c","o","r","d"," ","y","o","u","r"," ","m","e","s","s","a","g","e">>,
       <<"r","e","c","o","r","d"," ","y","o","u","r"," ","m","e","s","s","a","g","e">>,
       <<"u","n","a","b","l","e"," ","t","o"," ","a","n","s","w","e","r">>,
       <<"c","a","n","'","t"," ","c","o","m","e"," ","t","o"," ","t","h","e"," ","p","h","o","n","e">>,
       <<"c","a","n","n","o","t"," ","c","o","m","e"," ","t","o"," ","t","h","e"," ","p","h","o","n","e">>,
       <<"n","o","t"," ","a","v","a","i","l","a","b","l","e">>,
       <<"a","w","a","y"," ","f","r","o","m"," ","m","y"," ","p","h","o","n","e">>,
       <<"a","w","a","y"," ","f","r","o","m"," ","t","h","e"," ","p","h","o","n","e">>,
       <<"c","a","n","'","t"," ","t","a","k","e"," ","y","o","u","r"," ","c","a","l","l">>,
       <<"c","a","n","n","o","t"," ","t","a","k","e"," ","y","o","u","r"," ","c","a","l","l">>,
       <<"y","o","u"," ","h","a","v","e"," ","r","e","a","c","h","e","d"," ","t","h","e"," ","v","o","i","c","e","m","a","i","l">>,
       <<"y","o","u","'","v","e"," ","r","e","a","c","h","e","d"," ","t","h","e"," ","v","o","i","c","e","m","a","i","l">>,
       <<"y","o","u"," ","h","a","v","e"," ","r","e","a","c","h","e","d">>,
       <<"y","o","u","'","v","e"," ","r","e","a","c","h","e","d">>,
       <<"t","h","e"," ","p","e","r","s","o","n"," ","y","o","u"," ","a","r","e"," ","c","a","l","l","i","n","g">>,
       <<"t","h","e"," ","p","e","r","s","o","n"," ","y","o","u"," ","h","a","v","e"," ","c","a","l","l","e","d">>,
       <<"t","h","e"," ","s","u","b","s","c","r","i","b","e","r"," ","y","o","u"," ","h","a","v","e"," ","d","i","a","l","e","d">>,
       <<"t","h","e"," ","n","u","m","b","e","r"," ","y","o","u"," ","h","a","v","e"," ","d","i","a","l","e","d">>,
       <<"t","h","e"," ","c","u","s","t","o","m","e","r"," ","y","o","u"," ","a","r","e"," ","c","a","l","l","i","n","g">>,
       <<"m","a","i","l","b","o","x"," ","i","s"," ","f","u","l","l">>,
       <<"v","o","i","c","e","m","a","i","l"," ","b","o","x">>,
       <<"v","o","i","c","e"," ","m","a","i","l","b","o","x">>,
       <<"t","o"," ","l","e","a","v","e"," ","a"," ","c","a","l","l","b","a","c","k"," ","n","u","m","b","e","r">>,
       <<"i","f"," ","y","o","u","'","d"," ","l","i","k","e"," ","t","o"," ","l","e","a","v","e"," ","a"," ","m","e","s","s","a","g","e">>,
       <<"i","f"," ","y","o","u"," ","w","o","u","l","d"," ","l","i","k","e"," ","t","o"," ","l","e","a","v","e"," ","a"," ","m","e","s","s","a","g","e">>,
       <<"o","u","t"," ","o","f"," ","t","h","e"," ","o","f","f","i","c","e">>,
       <<"o","u","t"," ","o","f"," ","o","f","f","i","c","e">>,
       <<"b","u","s","i","n","e","s","s"," ","h","o","u","r","s">>,
       <<"o","f","f","i","c","e"," ","h","o","u","r","s">>,
       <<"p","r","e","s","s"," ","p","o","u","n","d">>,
       <<"p","r","e","s","s"," ","s","t","a","r">>,
       <<"p","r","e","s","s"," ","1">>,
       <<"p","r","e","s","s"," ","2">> >>

HUMAN_INDICATORS ==
    << <<"h","e","l","l","o">>,
       <<"h","i"," ","t","h","e","r","e">>,
       <<"g","o","o","d"," ","m","o","r","n","i","n","g">>,
       <<"g","o","o","d"," ","a","f","t","e","r","n","o","o","n">>,
       <<"g","o","o","d"," ","e","v","e","n","i","n","g">>,
       <<"h","o","w"," ","c","a","n"," ","i"," ","h","e","l","p">>,
       <<"h","o","w"," ","m","a","y"," ","i"," ","h","e","l","p">>,
       <<"s","p","e","a","k","i","n","g">>,
       <<"t","h","i","s"," ","i","s">>,
       <<"y","e","s">>,
       <<"y","e","a","h">> >>


(***************************************************************************)
(* Regular expressions: the subset of Python's re syntax that              *)
(* VOICEMAIL_PATTERNS uses, searched with re.IGNORECASE.                   *)
(***************************************************************************)
Whitespace == {" ", "\t", "\n"}

Digits == {"0","1","2","3","4","5","6","7","8","9"}

Lit(str)  == [k |-> "lit", s |-> str]

Cls(cs)   == [k |-> "cls", cs |-> cs]

Opt(r)    == [k |-> "opt", r |-> r]

Star(r)   == [k |-> "star", r |-> r]

Plus(r)   == [k |-> "plus", r |-> r]

Alt(rs)   == [k |-> "alt", rs |-> rs]

Cat(rs)   == [k |-> "cat", rs |-> rs]

\* \s+ , \s* and \d+
WS1 == Plus(Cls(Whitespace))

WS0 == Star(Cls(Whitespace))

DIG1 == Plus(Cls(Digits))

RECURSIVE Ends(_, _, _)
RECURSIVE EndsCat(_, _, _)
RECURSIVE EndsStar(_, _, _)

\* the positions at which a match of r that starts at a position of P can end
Ends(r, s, P) ==
    CASE r.k = "lit" ->
           { p + Len(r.s) : p \in
               { q \in P : /\ q + Len(r.s) - 1 <= Len(s)
                           /\ \A j \in 1..Len(r.s) :
                                 LowerChar(s[q + j - 1]) = LowerChar(r.s[j]) } }
      [] r.k = "cls" ->
           { p + 1 : p \in { q \in P : q <= Len(s) /\ LowerChar(s[q]) \in r.cs } }
      [] r.k = "opt"  -> P \cup Ends(r.r, s, P)
      [] r.k = "star" -> EndsStar(r.r, s, P)
      [] r.k = "plus" -> EndsStar(r.r, s, Ends(r.r, s, P))
      [] r.k = "alt"  -> UNION { Ends(r.rs[i], s, P) : i \in DOMAIN r.rs }
      [] r.k = "cat"  -> EndsCat(r.rs, s, P)

EndsCat(rs, s, P) ==
    IF Len(rs) = 0 THEN P ELSE EndsCat(Tail(rs), s, Ends(Head(rs), s, P))

EndsStar(r, s, P) ==
    LET Q == P \cup Ends(r, s, P)
    IN  IF Q = P THEN P ELSE EndsStar(r, s, Q)

\* re.search(pattern, s, re.IGNORECASE) finds a match
Search(r, s) == Ends(r, s, 1..(Len(s) + 1)) # {}

\* each pattern with its source text (pattern) and its syntax tree (re)
VOICEMAIL_PATTERNS ==
    << \* leave\s+(?:a\s+|your\s+)?message
       [pattern |-> <<"l","e","a","v","e","\\","s","+","(","?",":","a","\\","s","+","|","y","o","u","r","\\","s","+",")","?","m","e","s","s","a","g","e">>,
        re |-> Cat(<<Lit(<<"l","e","a","v","e">>), WS1, Opt(Alt(<<Cat(<<Lit(<<"a">>), WS1>>), Cat(<<Lit(<<"y","o","u","r">>), WS1>>)>>)), Lit(<<"m","e","s","s","a","g","e">>)>>)],
       \* after\s+the\s+(?:beep|tone)
       [pattern |-> <<"a","f","t","e","r","\\","s","+","t","h","e","\\","s","+","(","?",":","b","e","e","p","|","t","o","n","e",")">>,
        re |-> Cat(<<Lit(<<"a","f","t","e","r">>), WS1, Lit(<<"t","h","e">>), WS1, Alt(<<Lit(<<"b","e","e","p">>), Lit(<<"t","o","n","e">>)>>)>>)],
       \* at\s+the\s+(?:beep|tone)
       [pattern |-> <<"a","t","\\","s","+","t","h","e","\\","s","+","(","?",":","b","e","e","p","|","t","o","n","e",")">>,
        re |-> Cat(<<Lit(<<"a","t">>), WS1, Lit(<<"t","h","e">>), WS1, Alt(<<Lit(<<"b","e","e","p">>), Lit(<<"t","o","n","e">>)>>)>>)],
       \* (?:un)?able\s+to\s+(?:answer|take)
       [pattern |-> <<"(","?",":","u","n",")","?","a","b","l","e","\\","s","+","t","o","\\","s","+","(","?",":","a","n","s","w","e","r","|","t","a","k","e",")">>,
        re |-> Cat(<<Opt(Lit(<<"u","n">>)), Lit(<<"a","b","l","e">>), WS1, Lit(<<"t","o">>), WS1, Alt(<<Lit(<<"a","n","s","w","e","r">>), Lit(<<"t","a","k","e">>)>>)>>)],
       \* not\s+available
       [pattern |-> <<"n","o","t","\\","s","+","a","v","a","i","l","a","b","l","e">>,
        re |-> Cat(<<Lit(<<"n","o","t">>), WS1, Lit(<<"a","v","a","i","l","a","b","l","e">>)>>)],
       \* can'?t\s+(?:come\s+to|take)
       [pattern |-> <<"c","a","n","'","?","t","\\","s","+","(","?",":","c","o","m","e","\\","s","+","t","o","|","t","a","k","e",")">>,
        re |-> Cat(<<Lit(<<"c","a","n">>), Opt(Lit(<<"'">>)), Lit(<<"t">>), WS1, Alt(<<Cat(<<Lit(<<"c","o","m","e">>), WS1, Lit(<<"t","o">>)>>), Lit(<<"t","a","k","e">>)>>)>>)],
       \* you'?ve?\s+reached
       [pattern |-> <<"y","o","u","'","?","v","e","?","\\","s","+","r","e","a","c","h","e","d">>,
        re |-> Cat(<<Lit(<<"y","o","u">>), Opt(Lit(<<"'">>)), Lit(<<"v">>), Opt(Lit(<<"e">>)), WS1, Lit(<<"r","e","a","c","h","e","d">>)>>)],
       \* voice\s*mail
       [pattern |-> <<"v","o","i","c","e","\\","s","*","m","a","i","l">>,
        re |-> Cat(<<Lit(<<"v","o","i","c","e">>), WS0, Lit(<<"m","a","i","l">>)>>)],
       \* mailbox
       [pattern |-> <<"m","a","i","l","b","o","x">>,
        re |-> Lit(<<"m","a","i","l","b","o","x">>)],
       \* out\s+of\s+(?:the\s+)?office
       [pattern |-> <<"o","u","t","\\","s","+","o","f","\\","s","+","(","?",":","t","h","e","\\","s","+",")","?","o","f","f","i","c","e">>,
        re |-> Cat(<<Lit(<<"o","u","t">>), WS1, Lit(<<"o","f">>), WS1, Opt(Cat(<<Lit(<<"t","h","e">>), WS1>>)), Lit(<<"o","f","f","i","c","e">>)>>)],
       \* business\s+hours
       [pattern |-> <<"b","u","s","i","n","e","s","s","\\","s","+","h","o","u","r","s">>,
        re |-> Cat(<<Lit(<<"b","u","s","i","n","e","s","s">>), WS1, Lit(<<"h","o","u","r","s">>)>>)],
       \* press\s+\d+
       [pattern |-> <<"p","r","e","s","s","\\","s","+","\\","d","+">>,
        re |-> Cat(<<Lit(<<"p","r","e","s","s">>), WS1, DIG1>>)] >>

(***************************************************************************)
(* answeredBy values of Twilio's AMD (docstring of _analyze_amd)           *)
(***************************************************************************)
s_human == <<"h","u","m","a","n">>

s_machine == <<"m","a","c","h","i","n","e">>

s_machine_end_beep == <<"m","a","c","h","i","n","e","_","e","n","d","_","b","e","e","p">>

s_machine_start == <<"m","a","c","h","i","n","e","_","s","t","a","r","t">>

s_machine_end_silence == <<"m","a","c","h","i","n","e","_","e","n","d","_","s","i","l","e","n","c","e">>

s_machine_end_other == <<"m","a","c","h","i","n","e","_","e","n","d","_","o","t","h","e","r">>

s_fax == <<"f","a","x">>

(***************************************************************************)
(* Signals                                                                 *)
(***************************************************************************)
\* VoicemailSignal(signal_type, confidence, detected_at, details); the
\* timestamp detected_at is not modelled
VoicemailSignal(signal_type, confidence, details) ==
    [signal_type |-> signal_type, confidence |-> confidence, details |-> details]

(***************************************************************************)
(* Signal 1: _analyze_amd(answered_by), an Optional signal                 *)
(***************************************************************************)
\* variant: the confidences of machine_end_beep and machine_end_other exchanged
AmdConfidence_Exchanged(answered_by_lower) ==
    IF answered_by_lower = s_machine_end_beep THEN 85
    ELSE IF answered_by_lower = s_machine_start THEN 90
    ELSE IF answered_by_lower = s_machine_end_silence THEN 92
    ELSE IF answered_by_lower = s_machine_end_other THEN 98
    ELSE 95

\* the lookup of the confidence of a "machine" value
AmdConfidence(answered_by_lower) ==
    IF answered_by_lower = s_machine_end_beep THEN 98
    ELSE IF answered_by_lower = s_machine_start THEN 90
    ELSE IF answered_by_lower = s_machine_end_silence THEN 92
    ELSE IF answered_by_lower = s_machine_end_other THEN 85
    ELSE 95

\* the confidence of the signal of a fax machine
FaxConfidence == 70

\* variant: "human" is compared before lower() and every other value that is
\* not a machine value is reported like a fax
_analyze_amd_CaseSensitive(cfg, answered_by) ==
    LET answered_by_lower == Lower(answered_by)
        confidence == AmdConfidence(answered_by_lower)
    IN  IF answered_by = s_human THEN None
        ELSE IF Contains(answered_by_lower, s_machine)
        THEN IF confidence >= cfg.amd_confidence_threshold
             THEN Some(VoicemailSignal("amd", confidence,
                          [answered_by |-> answered_by,
                           detection_type |-> answered_by_lower]))
             ELSE None
        ELSE Some(VoicemailSignal("amd", FaxConfidence,
                          [answered_by |-> answered_by,
                           detection_type |-> s_fax]))

\* variant: the threshold gate is strict (confidence > threshold)
_analyze_amd_StrictGate(cfg, answered_by) ==
    LET answered_by_lower == Lower(answered_by)
        confidence == AmdConfidence(answered_by_lower)
    IN  IF answered_by_lower = s_human THEN None
        ELSE IF Contains(answered_by_lower, s_machine)
        THEN IF confidence > cfg.amd_confidence_threshold
             THEN Some(VoicemailSignal("amd", confidence,
                          [answered_by |-> answered_by,
                           detection_type |-> answered_by_lower]))
             ELSE None
        ELSE IF answered_by_lower = s_fax
        THEN Some(VoicemailSignal("amd", FaxConfidence,
                          [answered_by |-> answered_by,
                           detection_type |-> s_fax]))
        ELSE None

\* variant: the fax signal passes the threshold gate like the machine values
_analyze_amd_FaxGated(cfg, answered_by) ==
    LET answered_by_lower == Lower(answered_by)
        confidence == AmdConfidence(answered_by_lower)
    IN  IF answered_by_lower = s_human THEN None
        ELSE IF Contains(answered_by_lower, s_machine)
        THEN IF confidence >= cfg.amd_confidence_threshold
             THEN Some(VoicemailSignal("amd", confidence,
                          [answered_by |-> answered_by,
                           detection_type |-> answered_by_lower]))
             ELSE None
        ELSE IF answered_by_lower = s_fax /\ FaxConfidence >= cfg.amd_confidence_threshold
        THEN Some(VoicemailSignal("amd", FaxConfidence,
                          [answered_by |-> answered_by,
                           detection_type |-> s_fax]))
        ELSE None

_analyze_amd(cfg, answered_by) ==
    LET answered_by_lower == Lower(answered_by)
        confidence == AmdConfidence(answered_by_lower)
    IN  IF answered_by_lower = s_human THEN None
        ELSE IF Contains(answered_by_lower, s_machine)
        THEN IF confidence >= cfg.amd_confidence_threshold
             THEN Some(VoicemailSignal("amd", confidence,
                          [answered_by |-> answered_by,
                           detection_type |-> answered_by_lower]))
             ELSE None
        ELSE IF answered_by_lower = s_fax
        THEN Some(VoicemailSignal("amd", FaxConfidence,
                          [answered_by |-> answered_by,
                           detection_type |-> s_fax]))
        ELSE None

(***************************************************************************)
(* Signal 2: _analyze_transcript_keywords(transcripts)                     *)
(***************************************************************************)
\* utterances whose start_offset is at most this (60 s) are "early"
EarlyLimit == 600

\* [transcript.get("text", "").lower() for transcript in transcripts]
AllText(transcripts) ==
    [i \in DOMAIN transcripts |-> Lower(Get(transcripts[i], "text", <<>>))]

\* the texts of the utterances with start_offset <= 60, in list order
RECURSIVE First60Sec(_)
First60Sec(transcripts) ==
    IF Len(transcripts) = 0 THEN <<>>
    ELSE LET transcript == Head(transcripts)
             text == Lower(Get(transcript, "text", <<>>))
             ts_offset == Get(transcript, "start_offset", 0)
         IN  (IF ts_offset <= EarlyLimit THEN <<text>> ELSE <<>>)
                 \o First60Sec(Tail(transcripts))

\* variant: every literal keyword found weighs 1.0, early or not
KeywordMatches_Unweighted(early_text, combined_text) ==
    LET hit == SelectSeq(VOICEMAIL_KEYWORDS,
                   LAMBDA keyword : \/ Contains(early_text, keyword)
                                    \/ Contains(combined_text, keyword))
    IN  [i \in DOMAIN hit |-> <<hit[i], 1>>]

\* the (keyword, weight) pairs of the literal keywords, in table order
KeywordMatches(early_text, combined_text) ==
    LET hit == SelectSeq(VOICEMAIL_KEYWORDS,
                   LAMBDA keyword : \/ Contains(early_text, keyword)
                                    \/ Contains(combined_text, keyword))
    IN  [i \in DOMAIN hit |->
            <<hit[i], IF Contains(early_text, hit[i]) THEN 2 ELSE 1>>]

\* the (pattern, weight) pairs of the regular expressions, in table order
PatternMatches(early_text, combined_text) ==
    LET hit == SelectSeq(VOICEMAIL_PATTERNS,
                   LAMBDA p : \/ Search(p.re, early_text)
                              \/ Search(p.re, combined_text))
    IN  [i \in DOMAIN hit |->
            <<hit[i].pattern, IF Search(hit[i].re, early_text) THEN 2 ELSE 1>>]

\* the human indicators found in the early text, in table order
HumanMatches(early_text) ==
    SelectSeq(HUMAN_INDICATORS, LAMBDA indicator : Contains(early_text, indicator))

\* variant: voicemail_score / 5.0 without the cap at 1.0
RawConfidence_Uncapped(voicemail_score) == 20 * voicemail_score

\* voicemail_score / 5.0, capped at 1.0, in hundredths
RawConfidence(voicemail_score) ==
    IF 20 * voicemail_score < 100 THEN 20 * voicemail_score ELSE 100

\* max(0.0, raw_confidence - human_penalty * 0.1) in hundredths, where
\* human_penalty = len(human_matches) * 0.5 is kept in tenths (5 per match)
AdjustedConfidence(raw_confidence, human_penalty) ==
    IF raw_confidence - human_penalty > 0 THEN raw_confidence - human_penalty ELSE 0

\* what the texts of a transcript list show: the (keyword or pattern, weight)
\* pairs voicemail_matches and the list human_matches
KeywordEvidence(transcripts) ==
    LET combined_text == Join(AllText(transcripts))
        early_text == Join(First60Sec(transcripts))
    IN  [voicemail_matches |-> KeywordMatches(early_text, combined_text)
                                  \o PatternMatches(early_text, combined_text),
         human_matches |-> HumanMatches(early_text)]

\* _analyze_transcript_keywords raises: None.lower() is an AttributeError and
\* None <= 60 a TypeError
KeywordsRaise(transcripts) ==
    \E i \in DOMAIN transcripts :
        IsNull(transcripts[i], "text") \/ IsNull(transcripts[i], "start_offset")

\* the most utterances in one transcript list
MaxUtterances == 3

\* the utterances that transcript lists are made of
Utterances ==
    { [text |-> <<"L","e","a","v","e"," ","a"," ","m","e","s","s","a","g","e">>,
       speaker |-> "system", confidence |-> 99, start_offset |-> 5],
      [text |-> <<"H","e","l","l","o"," ","y","e","s"," ","s","p","e","a","k","i","n","g">>,
       speaker |-> "caller", confidence |-> 60, start_offset |-> 200],
      [text |-> <<"a","f","t","e","r"," ","t","h","e"," ","b","e","e","p">>,
       speaker |-> "system", confidence |-> 98, start_offset |-> 700],
      [text |-> <<"t","h","a","n","k"," ","y","o","u">>] }

\* the lists of at most n utterances
RECURSIVE UtteranceLists(_)
UtteranceLists(n) ==
    IF n = 0 THEN { <<>> }
    ELSE UtteranceLists(n - 1)
         \cup { Append(q, u) : q \in { p \in UtteranceLists(n - 1) : Len(p) = n - 1 },
                               u \in Utterances }

\* KeywordEvidence of every transcript list of the model, computed once
KeywordEvidenceTable ==
    [q \in UtteranceLists(MaxUtterances) |-> KeywordEvidence(q)] @@ << >>

KeywordEvidenceOf(transcripts) ==
    IF transcripts \in DOMAIN KeywordEvidenceTable
    THEN KeywordEvidenceTable[transcripts] ELSE KeywordEvidence(transcripts)

_analyze_transcript_keywords(cfg, transcripts) ==
    IF Len(transcripts) = 0 THEN None
    ELSE
    LET voicemail_matches == KeywordEvidenceOf(transcripts).voicemail_matches
        human_matches == KeywordEvidenceOf(transcripts).human_matches
        voicemail_score ==
            SumSeq([i \in DOMAIN voicemail_matches |-> voicemail_matches[i][2]])
        human_penalty == Len(human_matches) * 5
        raw_confidence == RawConfidence(voicemail_score)
        adjusted_confidence == AdjustedConfidence(raw_confidence, human_penalty)
    IN  IF Len(voicemail_matches) = 0 THEN None
        ELSE IF adjusted_confidence >= cfg.keyword_confidence_threshold
        THEN Some(VoicemailSignal("keyword", adjusted_confidence,
                 [matched_keywords |->
                      [i \in DOMAIN voicemail_matches |-> voicemail_matches[i][1]],
                  keyword_count |-> Len(voicemail_matches),
                  human_indicators |-> human_matches,
                  voicemail_score |-> voicemail_score,
                  human_penalty |-> human_penalty]))
        ELSE None

(***************************************************************************)
(* Signal 3: _analyze_transcript_patterns(transcripts)                     *)
(***************************************************************************)
\* the number of i with a truthy speaker at i-1 that differs from the one at i
SpeakerChanges(spk) ==
    Cardinality({ i \in 2..Len(spk) : spk[i-1] # "" /\ spk[i-1] # spk[i] })

\* max(start_times)
MaxOf(q) == CHOOSE m \in { q[i] : i \in DOMAIN q } : \A i \in DOMAIN q : q[i] <= m

\* the (name, score) pairs of the five checks that fire, in the code's order
TranscriptPatternsMatched(transcripts) ==
    LET n == Len(transcripts)
        spk == [i \in 1..n |-> Get(transcripts[i], "speaker", "unknown")]
        confidences == [i \in 1..n |-> Get(transcripts[i], "confidence", 0)]
        start_times == [i \in 1..n |-> Get(transcripts[i], "start_offset", 0)]
        speakers == { spk[i] : i \in 1..n }
        speaker_changes == SpeakerChanges(spk)
        first_speaker_time == start_times[1]
        total == SumSeq(confidences)
        \* sum((c - avg) ** 2) / n < 0.01 with avg = total / n, times n ** 3
        sq == SumSeq([i \in 1..n |->
                        (n * confidences[i] - total) * (n * confidences[i] - total)])
    IN  (IF Cardinality(speakers) = 1 /\ speaker_changes = 0
            THEN << <<"monologue", 30>> >> ELSE <<>>)
     \o (IF first_speaker_time < 20
            THEN << <<"immediate_start", 20>> >> ELSE <<>>)
     \o (IF total > 95 * n
            THEN << <<"high_confidence", 20>> >> ELSE <<>>)
     \o (IF n > 1 /\ sq < 100 * n * n * n
            THEN << <<"consistent_confidence", 15>> >> ELSE <<>>)
     \o (IF 150 <= MaxOf(start_times) /\ MaxOf(start_times) <= 450
            THEN << <<"typical_duration", 15>> >> ELSE <<>>)

\* _analyze_transcript_patterns raises a TypeError: sum(confidences) over a
\* None, or max(start_times) over a None
PatternsRaise(transcripts) ==
    /\ Len(transcripts) >= 3
    /\ \E i \in DOMAIN transcripts :
           IsNull(transcripts[i], "confidence") \/ IsNull(transcripts[i], "start_offset")

\* variant: the confidence is the sum itself, not min(sum, 0.95)
_analyze_transcript_patterns_Uncapped(transcripts) ==
    IF Len(transcripts) < 3 THEN None
    ELSE
    LET n == Len(transcripts)
        spk == [i \in 1..n |-> Get(transcripts[i], "speaker", "unknown")]
        confidences == [i \in 1..n |-> Get(transcripts[i], "confidence", 0)]
        start_times == [i \in 1..n |-> Get(transcripts[i], "start_offset", 0)]
        patterns_matched == TranscriptPatternsMatched(transcripts)
        pattern_confidence ==
            SumSeq([i \in DOMAIN patterns_matched |-> patterns_matched[i][2]])
    IN  IF Len(patterns_matched) = 0 THEN None
        ELSE IF pattern_confidence >= 40
        THEN Some(VoicemailSignal("transcript_analysis",
                 pattern_confidence,
                 [patterns_matched |->
                      [i \in DOMAIN patterns_matched |-> patterns_matched[i][1]],
                  speaker_count |-> Cardinality({ spk[i] : i \in 1..n }),
                  speaker_changes |-> SpeakerChanges(spk),
                  avg_confidence |-> [num |-> SumSeq(confidences), den |-> n],
                  duration |-> MaxOf(start_times)]))
        ELSE None

_analyze_transcript_patterns(transcripts) ==
    IF Len(transcripts) < 3 THEN None
    ELSE
    LET n == Len(transcripts)
        spk == [i \in 1..n |-> Get(transcripts[i], "speaker", "unknown")]
        confidences == [i \in 1..n |-> Get(transcripts[i], "confidence", 0)]
        start_times == [i \in 1..n |-> Get(transcripts[i], "start_offset", 0)]
        patterns_matched == TranscriptPatternsMatched(transcripts)
        pattern_confidence ==
            SumSeq([i \in DOMAIN patterns_matched |-> patterns_matched[i][2]])
    IN  IF Len(patterns_matched) = 0 THEN None
        ELSE IF pattern_confidence >= 40
        THEN Some(VoicemailSignal("transcript_analysis",
                 IF pattern_confidence < 95 THEN pattern_confidence ELSE 95,
                 [patterns_matched |->
                      [i \in DOMAIN patterns_matched |-> patterns_matched[i][1]],
                  speaker_count |-> Cardinality({ spk[i] : i \in 1..n }),
                  speaker_changes |-> SpeakerChanges(spk),
                  avg_confidence |-> [num |-> SumSeq(confidences), den |-> n],
                  duration |-> MaxOf(start_times)]))
        ELSE None

(***************************************************************************)
(* Signal 4: _analyze_audio_patterns(metadata, call_duration)              *)
(***************************************************************************)
\* the (name, score) pairs of the four checks that fire, in the code's order
AudioPatternsDetected(metadata, call_duration) ==
    LET silence_duration == Get(metadata, "trailing_silence_duration", 0)
    IN  (IF Get(metadata, "beep_detected", FALSE)
            THEN << <<"beep_detected", 40>> >> ELSE <<>>)
     \o (IF silence_duration > 3
            THEN << <<"trailing_silence", 30>> >> ELSE <<>>)
     \o (IF Get(metadata, "one_way_audio", FALSE)
            THEN << <<"one_way_audio", 20>> >> ELSE <<>>)
     \o (IF call_duration # None /\ Val(call_duration) # 0 /\ Val(call_duration) < 60
            THEN << <<"short_duration", 15>> >> ELSE <<>>)

\* _analyze_audio_patterns raises a TypeError: None > 3
AudioRaise(metadata) == IsNull(metadata, "trailing_silence_duration")

_analyze_audio_patterns(metadata, call_duration) ==
    LET patterns_detected == AudioPatternsDetected(metadata, call_duration)
        audio_confidence ==
            SumSeq([i \in DOMAIN patterns_detected |-> patterns_detected[i][2]])
    IN  IF Len(patterns_detected) = 0 THEN None
        ELSE IF audio_confidence >= 30
        THEN Some(VoicemailSignal("audio_pattern",
                 IF audio_confidence < 90 THEN audio_confidence ELSE 90,
                 [patterns_detected |->
                      [i \in DOMAIN patterns_detected |-> patterns_detected[i][1]],
                  beep_detected |-> Get(metadata, "beep_detected", FALSE),
                  silence_duration |-> Get(metadata, "trailing_silence_duration", 0),
                  call_duration |-> call_duration]))
        ELSE None

(***************************************************************************)
(* Fusion: _combine_signals(call_sid, signals, metadata)                   *)
(***************************************************************************)
\* variant: the weights of transcript_analysis and audio_pattern exchanged
SignalWeight_Exchanged(signal_type) ==
    CASE signal_type = "amd" -> 10
      [] signal_type = "keyword" -> 8
      [] signal_type = "transcript_analysis" -> 5
      [] signal_type = "audio_pattern" -> 6
      [] OTHER -> 5

\* variant: the weight of an amd signal is 0.1
SignalWeight_LightAmd(signal_type) ==
    CASE signal_type = "amd" -> 1
      [] signal_type = "keyword" -> 8
      [] signal_type = "transcript_analysis" -> 6
      [] signal_type = "audio_pattern" -> 5
      [] OTHER -> 5

\* signal_weights.get(signal_type, 0.5), in tenths
SignalWeight(signal_type) ==
    CASE signal_type = "amd" -> 10
      [] signal_type = "keyword" -> 8
      [] signal_type = "transcript_analysis" -> 6
      [] signal_type = "audio_pattern" -> 5
      [] OTHER -> 5

\* total_weight after the loop over the first n signals, in tenths
RECURSIVE TotalWeight(_, _)
TotalWeight(signals, n) ==
    IF n = 0 THEN 0
    ELSE TotalWeight(signals, n - 1) + SignalWeight(signals[n].signal_type)

\* weighted_confidence after the loop over the first n signals
RECURSIVE WeightedConfidence(_, _)
WeightedConfidence(signals, n) ==
    IF n = 0 THEN 0
    ELSE WeightedConfidence(signals, n - 1)
            + signals[n].confidence * SignalWeight(signals[n].signal_type)

\* a fraction num/den of hundredths compared with a number of hundredths
FracGE(f, c) == f.num >= c * f.den

FracLT(f, c) == f.num < c * f.den

\* variant: the last signal of maximal confidence
PrimarySignal_Last(signals) ==
    signals[CHOOSE i \in DOMAIN signals :
               /\ \A j \in DOMAIN signals : signals[j].confidence <= signals[i].confidence
               /\ \A j \in (i+1)..Len(signals) : signals[j].confidence < signals[i].confidence]

\* max(signals, key=lambda s: s.confidence): the first signal of maximal confidence
PrimarySignal(signals) ==
    signals[CHOOSE i \in DOMAIN signals :
               /\ \A j \in DOMAIN signals : signals[j].confidence <= signals[i].confidence
               /\ \A j \in 1..(i-1) : signals[j].confidence < signals[i].confidence]

\* variant: the aggressive mode asks an overall confidence of 0.75
AggressiveDecision_Overall75(signals, overall_confidence) ==
    \/ FracGE(overall_confidence, 75)
    \/ \E i \in DOMAIN signals : signals[i].confidence >= 85

\* the decision of the aggressive mode
AggressiveDecision(signals, overall_confidence) ==
    \/ FracGE(overall_confidence, 60)
    \/ \E i \in DOMAIN signals : signals[i].confidence >= 85

\* variant: the moderate path needs more than min_signals_required signals
ConservativeDecision_StrictCount(cfg, signals, overall_confidence) ==
    IF FracGE(overall_confidence, 75) THEN TRUE
    ELSE IF Len(signals) > cfg.min_signals_required /\ FracGE(overall_confidence, 60)
    THEN TRUE
    ELSE IF \E i \in DOMAIN signals :
               signals[i].signal_type = "amd" /\ signals[i].confidence >= 90
    THEN TRUE
    ELSE FALSE

\* variant: the high-confidence path needs an overall confidence of 0.9
ConservativeDecision_High90(cfg, signals, overall_confidence) ==
    IF FracGE(overall_confidence, 90) THEN TRUE
    ELSE IF Len(signals) >= cfg.min_signals_required /\ FracGE(overall_confidence, 60)
    THEN TRUE
    ELSE IF \E i \in DOMAIN signals :
               signals[i].signal_type = "amd" /\ signals[i].confidence >= 90
    THEN TRUE
    ELSE FALSE

\* variant: the high-confidence path alone decides
ConservativeDecision_HighOnly(cfg, signals, overall_confidence) ==
    FracGE(overall_confidence, 75)

\* the decision of the conservative mode
ConservativeDecision(cfg, signals, overall_confidence) ==
    IF FracGE(overall_confidence, 75) THEN TRUE
    ELSE IF Len(signals) >= cfg.min_signals_required /\ FracGE(overall_confidence, 60)
    THEN TRUE
    ELSE IF \E i \in DOMAIN signals :
               signals[i].signal_type = "amd" /\ signals[i].confidence >= 90
    THEN TRUE
    ELSE FALSE

\* {**a, **b}
Merge(a, b) ==
    [k \in DOMAIN a \cup DOMAIN b |-> IF k \in DOMAIN b THEN b[k] ELSE a[k]]

\* variant: the empty case reports a detection method
NoSignalsResult_Method(call_sid) ==
    [is_voicemail |-> FALSE,
     confidence |-> [num |-> 0, den |-> 1],
     signals |-> <<>>,
     detection_method |-> "unknown",
     metadata |-> [call_sid |-> call_sid, reason |-> "no_signals"]]

\* the result for an empty list of signals
NoSignalsResult(call_sid) ==
    [is_voicemail |-> FALSE,
     confidence |-> [num |-> 0, den |-> 1],
     signals |-> <<>>,
     detection_method |-> "none",
     metadata |-> [call_sid |-> call_sid, reason |-> "no_signals"]]

_combine_signals(cfg, call_sid, signals, metadata) ==
    IF Len(signals) = 0 THEN NoSignalsResult(call_sid)
    ELSE
    LET total_weight == TotalWeight(signals, Len(signals))
        weighted_confidence == WeightedConfidence(signals, Len(signals))
        overall_confidence ==
            IF total_weight > 0 THEN [num |-> weighted_confidence, den |-> total_weight]
            ELSE [num |-> 0, den |-> 1]
        detection_method == PrimarySignal(signals).signal_type
        is_voicemail ==
            IF cfg.enable_aggressive_detection
            THEN AggressiveDecision(signals, overall_confidence)
            ELSE ConservativeDecision(cfg, signals, overall_confidence)
    IN  [is_voicemail |-> is_voicemail,
         confidence |-> overall_confidence,
         signals |-> signals,
         detection_method |-> detection_method,
         metadata |-> Merge([call_sid |-> call_sid,
                             signal_count |-> Len(signals),
                             signal_types |->
                                 [i \in DOMAIN signals |-> signals[i].signal_type],
                             weighted_confidence |-> overall_confidence,
                             primary_method |-> detection_method],
                            metadata)]

(***************************************************************************)
(* analyze_call                                                            *)
(***************************************************************************)
\* variant: the audio heuristics run before the transcript extractors
CollectSignals_AudioEarly(cfg, answered_by, transcripts, call_duration, metadata) ==
    LET amd_signal ==
            IF answered_by # None /\ Len(Val(answered_by)) > 0
            THEN _analyze_amd(cfg, Val(answered_by)) ELSE None
        keyword_signal ==
            IF transcripts # None /\ Len(Val(transcripts)) > 0
            THEN _analyze_transcript_keywords(cfg, Val(transcripts)) ELSE None
        transcript_signal ==
            IF transcripts # None /\ Len(Val(transcripts)) > 0
            THEN _analyze_transcript_patterns(Val(transcripts)) ELSE None
        audio_signal ==
            IF metadata # None /\ DOMAIN Val(metadata) # {}
            THEN _analyze_audio_patterns(Val(metadata), call_duration) ELSE None
    IN  amd_signal \o audio_signal \o keyword_signal \o transcript_signal

\* the list signals that analyze_call builds: each extractor appends at most
\* one signal, in the order amd, keyword, transcript_analysis, audio_pattern
CollectSignals(cfg, answered_by, transcripts, call_duration, metadata) ==
    LET amd_signal ==
            IF answered_by # None /\ Len(Val(answered_by)) > 0
            THEN _analyze_amd(cfg, Val(answered_by)) ELSE None
        keyword_signal ==
            IF transcripts # None /\ Len(Val(transcripts)) > 0
            THEN _analyze_transcript_keywords(cfg, Val(transcripts)) ELSE None
        transcript_signal ==
            IF transcripts # None /\ Len(Val(transcripts)) > 0
            THEN _analyze_transcript_patterns(Val(transcripts)) ELSE None
        audio_signal ==
            IF metadata # None /\ DOMAIN Val(metadata) # {}
            THEN _analyze_audio_patterns(Val(metadata), call_duration) ELSE None
    IN  amd_signal \o keyword_signal \o transcript_signal \o audio_signal

\* the value analyze_call returns
analyze_call(cfg, call_sid, answered_by, transcripts, call_duration, metadata) ==
    _combine_signals(cfg, call_sid,
        CollectSignals(cfg, answered_by, transcripts, call_duration, metadata),
        IF metadata # None THEN Val(metadata) ELSE << >>)

\* detection_stats as __init__ and reset_statistics set it
ZeroStats ==
    [total_analyzed |-> 0, voicemail_detected |-> 0, human_detected |-> 0,
     uncertain |-> 0,
     methods_used |-> [amd |-> 0, keyword |-> 0, audio_pattern |-> 0,
                       transcript_analysis |-> 0]]

\* detection_stats after an analyze_call that returns result
UpdateStats(stats, result) ==
    LET types == { result.signals[i].signal_type : i \in DOMAIN result.signals }
    IN  [total_analyzed |-> stats.total_analyzed + 1,
         voicemail_detected |->
             stats.voicemail_detected + (IF result.is_voicemail THEN 1 ELSE 0),
         uncertain |->
             stats.uncertain + (IF ~result.is_voicemail /\ FracLT(result.confidence, 30)
                                THEN 1 ELSE 0),
         human_detected |->
             stats.human_detected + (IF ~result.is_voicemail /\ ~FracLT(result.confidence, 30)
                                     THEN 1 ELSE 0),
         methods_used |->
             [t \in DOMAIN stats.methods_used |->
                 stats.methods_used[t] + (IF t \in types THEN 1 ELSE 0)]]

\* where analyze_call raises: the extractor whose exception leaves it, "" when
\* analyze_call returns
RaisingStage(transcripts, metadata) ==
    IF transcripts # None /\ Len(Val(transcripts)) > 0 /\ KeywordsRaise(Val(transcripts))
    THEN "keyword"
    ELSE IF transcripts # None /\ Len(Val(transcripts)) > 0
            /\ PatternsRaise(Val(transcripts))
    THEN "transcript_analysis"
    ELSE IF metadata # None /\ DOMAIN Val(metadata) # {} /\ AudioRaise(Val(metadata))
    THEN "audio_pattern"
    ELSE ""

\* the place of an extractor in analyze_call, 5 for "" (no exception)
StageOrder(stage) ==
    CASE stage = "amd" -> 1
      [] stage = "keyword" -> 2
      [] stage = "transcript_analysis" -> 3
      [] stage = "audio_pattern" -> 4
      [] OTHER -> 5

\* detection_stats after an analyze_call that raises in stage: total_analyzed
\* and the counters of the signals appended before the exception.  signals is
\* the list of the answers of all four extractors (an extractor's answer
\* does not depend on the fields that make a later one raise), of which the
\* ones before stage were appended.
StatsAtRaise(stats, signals, stage) ==
    LET types == { signals[i].signal_type : i \in DOMAIN signals }
    IN  [stats EXCEPT !.total_analyzed = @ + 1,
                      !.methods_used =
                          [t \in DOMAIN @ |->
                              @[t] + (IF t \in types /\ StageOrder(t) < StageOrder(stage)
                                     THEN 1 ELSE 0)]]

\* the outcome of an analyze_call that returns r
Returns(stats, r) ==
    [raised |-> FALSE, result |-> Some(r), stats |-> UpdateStats(stats, r)]

\* variant: the fused confidence is damped by the number of calls analysed
OutcomeOf_Warmup(stats, cfg, args, stage, signals) ==
    IF stage # ""
    THEN [raised |-> TRUE, result |-> None, stats |-> StatsAtRaise(stats, signals, stage)]
    ELSE Returns(stats,
             [_combine_signals(cfg, args.call_sid, signals,
                               IF args.metadata # None THEN Val(args.metadata) ELSE << >>)
                 EXCEPT !.confidence.den = @ * (stats.total_analyzed + 1)])

\* analyze_call on a detector whose detection_stats is stats, given the
\* extractor that raises (stage) and the signals of the extractors: whether
\* it raises, what it returns, and detection_stats afterwards
OutcomeOf(stats, cfg, args, stage, signals) ==
    IF stage # ""
    THEN [raised |-> TRUE, result |-> None, stats |-> StatsAtRaise(stats, signals, stage)]
    ELSE Returns(stats,
             _combine_signals(cfg, args.call_sid, signals,
                              IF args.metadata # None THEN Val(args.metadata) ELSE << >>))

AnalyzeOutcome(stats, cfg, args) ==
    OutcomeOf(stats, cfg, args,
              RaisingStage(args.transcripts, args.metadata),
              CollectSignals(cfg, args.answered_by, args.transcripts,
                             args.call_duration, args.metadata))

\* the key of the largest count of methods_used, the first one in the dict's
\* order among equals
MethodsOrder == <<"amd", "keyword", "audio_pattern", "transcript_analysis">>

PrimaryMethod(methods_used) ==
    LET best == CHOOSE i \in DOMAIN MethodsOrder :
                    /\ \A j \in DOMAIN MethodsOrder :
                           methods_used[MethodsOrder[j]] <= methods_used[MethodsOrder[i]]
                    /\ \A j \in 1..(i - 1) :
                           methods_used[MethodsOrder[j]] < methods_used[MethodsOrder[i]]
    IN  IF \E t \in DOMAIN methods_used : methods_used[t] # 0
        THEN MethodsOrder[best] ELSE "none"

\* variant: no early return for total_analyzed = 0
get_statistics_NoGuard(stats) ==
    LET total == stats.total_analyzed
    IN  [total_analyzed |-> total,
         voicemail_detected |-> stats.voicemail_detected,
         human_detected |-> stats.human_detected,
         uncertain |-> stats.uncertain,
         voicemail_rate |-> [num |-> stats.voicemail_detected, den |-> total],
         human_rate |-> [num |-> stats.human_detected, den |-> total],
         uncertain_rate |-> [num |-> stats.uncertain, den |-> total],
         methods_used |-> stats.methods_used,
         primary_method |-> PrimaryMethod(stats.methods_used)]

\* the dict get_statistics returns; the rates are exact fractions
get_statistics(stats) ==
    LET total == stats.total_analyzed
    IN  IF total = 0
        THEN [total_analyzed |-> 0, accuracy_metrics |-> "insufficient_data"]
        ELSE [total_analyzed |-> total,
              voicemail_detected |-> stats.voicemail_detected,
              human_detected |-> stats.human_detected,
              uncertain |-> stats.uncertain,
              voicemail_rate |-> [num |-> stats.voicemail_detected, den |-> total],
              human_rate |-> [num |-> stats.human_detected, den |-> total],
              uncertain_rate |-> [num |-> stats.uncertain, den |-> total],
              methods_used |-> stats.methods_used,
              primary_method |-> PrimaryMethod(stats.methods_used)]

(***************************************************************************)
(* Inputs                                                                  *)
(***************************************************************************)
\* the most analyze_call invocations on one detector
MaxCalls == 2

\* VoicemailDetector(amd_confidence_threshold, keyword_confidence_threshold,
\*                   min_signals_required, enable_aggressive_detection)
DefaultConfig ==
    [amd_confidence_threshold |-> 85, keyword_confidence_threshold |-> 75,
     min_signals_required |-> 1, enable_aggressive_detection |-> FALSE]

\* [amd_confidence_threshold, keyword_confidence_threshold,
\*  min_signals_required, enable_aggressive_detection] as a configuration
Config(amd, keyword, min_signals, aggressive) ==
    [amd_confidence_threshold |-> amd, keyword_confidence_threshold |-> keyword,
     min_signals_required |-> min_signals, enable_aggressive_detection |-> aggressive]

\* the configurations of the model: the default one, each mode with one and
\* with three required signals, and AMD thresholds below the fax confidence
\* (0.60), between the machine confidences (0.91) and above all of them (0.99)
Configs ==
    { DefaultConfig,
      Config(85, 75, 1, TRUE),
      Config(85, 75, 3, FALSE),
      Config(91, 40, 1, FALSE),
      Config(91, 40, 3, TRUE),
      Config(60, 75, 1, FALSE),
      Config(99, 40, 3, FALSE) }

AnsweredByValues ==
    { None,
      Some(<<>>),
      Some(s_human),
      Some(<<"H","u","m","a","n">>),
      Some(s_machine_start),
      Some(s_machine_end_beep),
      Some(s_machine_end_silence),
      Some(s_machine_end_other),
      Some(<<"M","a","c","h","i","n","e">>),
      Some(s_fax),
      Some(<<"u","n","k","n","o","w","n">>) }

TranscriptValues == { None } \cup { Some(q) : q \in UtteranceLists(MaxUtterances) }

\* (metadata, call_duration) pairs
AudioValues ==
    { <<None, None>>,
      <<Some(<< >>), Some(30)>>,
      <<Some([beep_detected |-> TRUE]), Some(30)>>,
      <<Some([trailing_silence_duration |-> 5]), None>>,
      <<Some([beep_detected |-> TRUE, trailing_silence_duration |-> 5,
              one_way_audio |-> TRUE]), Some(30)>>,
      <<Some([beep_detected |-> FALSE, trailing_silence_duration |-> 2,
              campaign |-> "fall"]), Some(120)>> }

\* the arguments of one analyze_call
CallArgs(answered_by, transcripts, audio) ==
    [call_sid |-> "CA1", answered_by |-> answered_by, transcripts |-> transcripts,
     call_duration |-> audio[2], metadata |-> audio[1]]

Calls ==
    { CallArgs(a, t, m) : a \in AnsweredByValues, t \in TranscriptValues, m \in AudioValues }

\* utterances with a None or an out-of-range field
MalformedUtterances ==
    { [text |-> <<"L","e","a","v","e"," ","a"," ","m","e","s","s","a","g","e">>,
       speaker |-> "system", confidence |-> 99, null |-> {"start_offset"}],
      [speaker |-> "system", confidence |-> 99, start_offset |-> 5, null |-> {"text"}],
      [text |-> <<"t","h","a","n","k"," ","y","o","u">>,
       speaker |-> "system", start_offset |-> 5, null |-> {"confidence"}],
      [text |-> <<"t","h","a","n","k"," ","y","o","u">>,
       speaker |-> "system", confidence |-> -50, start_offset |-> 5] }

\* the transcript lists with a malformed utterance: alone, and between two
\* well-formed ones
MalformedLists ==
    LET u == [text |-> <<"L","e","a","v","e"," ","a"," ","m","e","s","s","a","g","e">>,
              speaker |-> "system", confidence |-> 99, start_offset |-> 5]
    IN  { << m >> : m \in MalformedUtterances }
            \cup { << u, m, u >> : m \in MalformedUtterances }

\* calls with a malformed utterance or a None trailing_silence_duration
MalformedCalls ==
    { CallArgs(a, Some(q), m) :
        a \in { None, Some(s_machine_end_beep) },
        q \in MalformedLists,
        m \in { <<None, None>>, <<Some([beep_detected |-> TRUE]), Some(30)>> } }
    \cup { CallArgs(a, t, <<Some([null |-> {"trailing_silence_duration"}]), Some(30)>>) :
             a \in { None, Some(s_machine_end_beep) },
             t \in { None, Some(<< [text |-> <<"t","h","a","n","k"," ","y","o","u">>] >>) } }

\* the transcripts of TEST_CASES[TEST010]: one speaker, start_offsets 0.5, 3.0
\* and 7.0, confidences 0.99, 0.99 and 0.98
Test010Transcripts ==
    << [speaker |-> "system", text |-> <<"T","h","a","n","k"," ","y","o","u"," ","f","o","r"," ","c","a","l","l","i","n","g",".">>,
        confidence |-> 99, start_offset |-> 5],
       [speaker |-> "system", text |-> <<"Y","o","u","r"," ","c","a","l","l"," ","i","s"," ","i","m","p","o","r","t","a","n","t"," ","t","o"," ","u","s",".">>,
        confidence |-> 99, start_offset |-> 30],
       [speaker |-> "system", text |-> <<"I","f"," ","y","o","u","'","d"," ","l","i","k","e"," ","t","o"," ","l","e","a","v","e"," ","a"," ","m","e","s","s","a","g","e",","," ","p","l","e","a","s","e"," ","d","o"," ","s","o"," ","n","o","w",".">>,
        confidence |-> 98, start_offset |-> 70] >>

\* an utterance of the speaker "system" that says "thank you"
Said(confidence, start_offset) ==
    [speaker |-> "system", text |-> <<"t","h","a","n","k"," ","y","o","u">>,
     confidence |-> confidence, start_offset |-> start_offset]

\* transcript lists for the timing checks: TEST010; one on which all five
\* checks fire; one whose earliest utterance is second in the list, and the
\* same utterances in the order of their start_offset
PatternLists ==
    { Test010Transcripts,
      << Said(99, 5), Said(99, 30), Said(98, 200) >>,
      << Said(60, 200), Said(60, 5), Said(60, 300) >>,
      << Said(60, 5), Said(60, 200), Said(60, 300) >> }

\* calls with these lists alone; metadata {} and call_duration 30 as run_test
\* passes them for TEST010
PatternCalls == { CallArgs(None, Some(q), <<Some(<< >>), Some(30)>>) : q \in PatternLists }

\* calls whose call_duration is 0 seconds, with audio evidence in the metadata
ZeroDurationCalls ==
    { CallArgs(None, None, <<Some(m), Some(0)>>) :
        m \in { [trailing_silence_duration |-> 5], [one_way_audio |-> TRUE] } }

\* a call with the weakest evidence next to an AMD signal of 0.90: a
\* transcript_analysis signal of 0.45 and an audio_pattern signal of 0.30
BoundaryCalls ==
    { CallArgs(Some(s_machine_start),
               Some(<< Said(60, 500), Said(60, 600), Said(60, 700) >>),
               <<Some([trailing_silence_duration |-> 5]), None>>) }

\* calls whose metadata holds keys named like the diagnostic fields
OverridingCalls ==
    { CallArgs(a, None, <<Some(m), None>>) :
        a \in { None, Some(s_human), Some(s_machine_end_beep) },
        m \in { [call_sid |-> "CA9", beep_detected |-> TRUE],
                [call_sid |-> "CA9", signal_types |-> << "manual" >>,
                 weighted_confidence |-> [num |-> 1, den |-> 1],
                 beep_detected |-> TRUE] } }

(***************************************************************************)
(* State                                                                   *)
(***************************************************************************)
VARIABLES
    config,            \* the detector's four options, set by __init__
    detection_stats,   \* self.detection_stats
    call,              \* the arguments of the pending or latest analyze_call
    result,            \* what the latest analyze_call returned, None before it
    raised,            \* the latest analyze_call left by an exception
    history,           \* the analyze_call invocations so far: arguments and result
    reset_at,          \* Len(history) at the latest reset_statistics, 0 before it
    last_op,           \* the method invoked latest, "__init__" before any
    statistics,        \* the dict the latest get_statistics returned, None before it
    statistics_alias,  \* statistics["methods_used"] is the very dict object
                       \* detection_stats["methods_used"]
    db_calls,          \* the documents of db.calls that have a twilio_sid, by twilio_sid
    outbound           \* the retry calls placed by twilio_client.make_outbound_call

vars == <<config, detection_stats, call, result, raised, history, reset_at,
          last_op, statistics, statistics_alias, db_calls, outbound>>

\* the dict held by the caller of get_statistics after the detector wrote
\* methods_used: the writes are in place, so an aliased dict shows them
SeenByHolder(held, alias, methods_used) ==
    IF held # None /\ alias
    THEN Some([Val(held) EXCEPT !.methods_used = methods_used])
    ELSE held

\* the state after an analyze_call(args) with the outcome out
Completes(args, out) ==
    /\ call' = Some(args)
    /\ result' = out.result
    /\ raised' = out.raised
    /\ detection_stats' = out.stats
    /\ history' = Append(history, [args |-> args, result |-> out.result])
    /\ last_op' = "analyze_call"
    /\ statistics' = SeenByHolder(statistics, statistics_alias, out.stats.methods_used)
    /\ UNCHANGED <<config, reset_at, statistics_alias, db_calls, outbound>>

\* analyze_call(call_sid, answered_by, transcripts, call_duration, metadata)
AnalyzeCall(args) == Completes(args, AnalyzeOutcome(detection_stats, config, args))

\* reset_statistics(): detection_stats is bound to new dicts
ResetStatistics ==
    /\ detection_stats' = ZeroStats
    /\ reset_at' = Len(history)
    /\ last_op' = "reset_statistics"
    /\ statistics_alias' = FALSE
    /\ UNCHANGED <<config, call, result, raised, history, statistics, db_calls, outbound>>

\* get_statistics(): the returned dict holds detection_stats["methods_used"]
\* itself, not a copy
GetStatistics ==
    /\ statistics' = Some(get_statistics(detection_stats))
    /\ statistics_alias' = (detection_stats.total_analyzed # 0)
    /\ last_op' = "get_statistics"
    /\ UNCHANGED <<config, detection_stats, call, result, raised, history, reset_at,
                   db_calls, outbound>>

(***************************************************************************)
(* SpecAnalyze: one analyze_call on a fresh detector, the configuration    *)
(* and the arguments drawn from Configs and Calls.                         *)
(***************************************************************************)
InitAnalyze ==
    /\ config \in Configs
    /\ detection_stats = ZeroStats
    /\ call \in { Some(c) : c \in Calls \cup MalformedCalls \cup PatternCalls
                                   \cup ZeroDurationCalls \cup BoundaryCalls
                                   \cup OverridingCalls }
    /\ result = None
    /\ raised = FALSE
    /\ history = <<>>
    /\ reset_at = 0
    /\ last_op = "__init__"
    /\ statistics = None
    /\ statistics_alias = FALSE
    /\ db_calls = << >>
    /\ outbound = <<>>

AnalyzePending ==
    /\ history = <<>>
    /\ AnalyzeCall(Val(call))

NextAnalyze == AnalyzePending

SpecAnalyze == InitAnalyze /\ [][NextAnalyze]_vars

(***************************************************************************)
(* Spec: one detector through analyze_call, reset_statistics and           *)
(* get_statistics invocations in any order.  analyze_call is a plain       *)
(* method that never awaits, so the background tasks of one event loop     *)
(* that call it (run_voicemail_detection) run it one at a time: the        *)
(* schedules of several tasks are the sequences of AnalyzeCall steps.      *)
(***************************************************************************)
\* an utterance whose start_offset is None
NullOffsetUtterance ==
    [text |-> <<"t","h","a","n","k"," ","y","o","u">>, null |-> {"start_offset"}]

\* the arguments of the calls of this specification
StatCalls ==
    { CallArgs(a, t, m) :
        a \in { None, Some(s_machine_end_beep), Some(s_fax) },
        t \in { None, Some(<< [text |-> <<"t","h","a","n","k"," ","y","o","u">>] >>),
                Some(<< NullOffsetUtterance >>) },
        m \in { <<None, None>> } }
    \cup
    { CallArgs(Some(s_machine_end_beep), t, m) :
        t \in { None, Some(<< [text |-> <<"t","h","a","n","k"," ","y","o","u">>] >>),
                Some(<< NullOffsetUtterance >>) },
        m \in { <<Some([trailing_silence_duration |-> 5]), Some(30)>> } }

Init ==
    /\ config \in { DefaultConfig,
                    [DefaultConfig EXCEPT !.enable_aggressive_detection = TRUE] }
    /\ detection_stats = ZeroStats
    /\ call = None
    /\ result = None
    /\ raised = FALSE
    /\ history = <<>>
    /\ reset_at = 0
    /\ last_op = "__init__"
    /\ statistics = None
    /\ statistics_alias = FALSE
    /\ db_calls = << >>
    /\ outbound = <<>>

Next ==
    \/ \E args \in StatCalls :
          /\ Len(history) < MaxCalls
          /\ AnalyzeCall(args)
    \/ ResetStatistics
    \/ GetStatistics

Spec == Init /\ [][Next]_vars

(***************************************************************************)
(* SpecRetry: retry_call_background invocations (main.py) against the      *)
(* collection db.calls and the telephony provider.  The coroutine never    *)
(* awaits, so the invocations of one event loop run one at a time.         *)
(***************************************************************************)
\* max_attempts: the default of retry_call_background, and the value
\* handle_status_callback passes
MaxAttempts == 3

\* the most retry calls placed in one behaviour
MaxPlaced == 4

\* the Call SIDs retry_call_background is invoked with
RetrySids == {"CA1", "CA2"}

\* the documents db.calls holds for such a call: with or without a
\* destination number, retry_count missing or stored
CallDocs ==
    { [status |-> "failed"],
      [status |-> "failed", to_number |-> "+15550100"] }
    \cup { [status |-> "failed", retry_count |-> n] : n \in {0, 3} }
    \cup { [status |-> "failed", to_number |-> "+15550100", retry_count |-> n] :
             n \in {0, 2, 3} }

\* MongoDatabase.create_call as the class ends up defining it: the definition
\* at dao.py line 472 replaces the one at line 204, so the method takes
\* (user_id, call_sid, started_at).  args are the positional arguments of the
\* invocation; any other number of them is a TypeError.
create_call(calls, args) ==
    IF Len(args) # 3 THEN [raised |-> TRUE, calls |-> calls]
    ELSE IF args[2] \in DOMAIN calls THEN [raised |-> FALSE, calls |-> calls]
    ELSE [raised |-> FALSE,
          calls |-> calls @@ (args[2] :> [user_id |-> args[1], status |-> "in-progress"])]

\* MongoDatabase.update_call_by_twilio_sid: $set on the matching document
update_call_by_twilio_sid(calls, twilio_sid, update_data) ==
    IF twilio_sid \in DOMAIN calls
    THEN [calls EXCEPT ![twilio_sid] = Merge(@, update_data)]
    ELSE calls

\* the Call SIDs the provider gives the calls it places, in order
ProviderSids == <<"CA101", "CA102", "CA103", "CA104", "CA105", "CA106">>

\* twilio_response["call_sid"] of the next call placed
NewTwilioSid == ProviderSids[Len(outbound) + 1]

\* retry_call_background(call_sid, max_attempts); twilio_ok is whether
\* make_outbound_call returns or raises one of its errors.  Every exception
\* ends the coroutine in its except clause.
RetryCallBackground(call_sid, max_attempts, twilio_ok) ==
    /\ UNCHANGED <<config, detection_stats, call, result, raised, history, reset_at,
                   last_op, statistics, statistics_alias>>
    /\ IF call_sid \notin DOMAIN db_calls
       THEN UNCHANGED <<db_calls, outbound>>
       ELSE LET doc == db_calls[call_sid]
                retry_count == Get(doc, "retry_count", 0)
                new_call_data ==
                    [twilio_sid |-> NewTwilioSid, status |-> "initiated",
                     to_number |-> Get(doc, "to_number", ""),
                     is_retry |-> TRUE, retry_of_call_sid |-> call_sid,
                     retry_attempt |-> retry_count + 1]
                created == create_call(db_calls, << new_call_data >>)
            IN  IF retry_count >= max_attempts \/ "to_number" \notin DOMAIN doc
                   \/ ~twilio_ok
                THEN UNCHANGED <<db_calls, outbound>>
                ELSE /\ outbound' = Append(outbound, new_call_data)
                     /\ db_calls' =
                            IF created.raised THEN db_calls
                            ELSE update_call_by_twilio_sid(created.calls, call_sid,
                                     [retry_count |-> retry_count + 1])

InitRetry ==
    /\ config = DefaultConfig
    /\ detection_stats = ZeroStats
    /\ call = None
    /\ result = None
    /\ raised = FALSE
    /\ history = <<>>
    /\ reset_at = 0
    /\ last_op = "__init__"
    /\ statistics = None
    /\ statistics_alias = FALSE
    /\ db_calls \in UNION { [S -> CallDocs] : S \in SUBSET RetrySids }
    /\ outbound = <<>>

NextRetry ==
    \E call_sid \in RetrySids, twilio_ok \in BOOLEAN :
        /\ Len(outbound) < MaxPlaced
        /\ RetryCallBackground(call_sid, MaxAttempts, twilio_ok)

SpecRetry == InitRetry /\ [][NextRetry]_vars

(***************************************************************************)
(* Properties of one analyze_call (checked under SpecAnalyze)              *)
(***************************************************************************)
\* analyze_call has returned
Returned == result # None

\* the result and the arguments of the call
Res == Val(result)

Args == Val(call)

\* the types and the confidences of the signals of the result, in list order
SignalTypes == [i \in DOMAIN Res.signals |-> Res.signals[i].signal_type]

SignalConfidences == [i \in DOMAIN Res.signals |-> Res.signals[i].confidence]

\* each extractor's own answer on the arguments of the call
AmdEmits ==
    /\ Args.answered_by # None
    /\ Len(Val(Args.answered_by)) > 0
    /\ _analyze_amd(config, Val(Args.answered_by)) # None

KeywordEmits ==
    /\ Args.transcripts # None
    /\ Len(Val(Args.transcripts)) > 0
    /\ _analyze_transcript_keywords(config, Val(Args.transcripts)) # None

TranscriptEmits ==
    /\ Args.transcripts # None
    /\ Len(Val(Args.transcripts)) > 0
    /\ _analyze_transcript_patterns(Val(Args.transcripts)) # None

AudioEmits ==
    /\ Args.metadata # None
    /\ DOMAIN Val(Args.metadata) # {}
    /\ _analyze_audio_patterns(Val(Args.metadata), Args.call_duration) # None

NoExtractorEmits == ~AmdEmits /\ ~KeywordEmits /\ ~TranscriptEmits /\ ~AudioEmits

AllAbsent ==
    /\ Args.answered_by = None
    /\ Args.transcripts = None
    /\ Args.call_duration = None
    /\ Args.metadata = None

\* the result says "no voicemail, confidence 0.0, method none, no signals"
IsNoneResult ==
    /\ Res.signals = <<>>
    /\ Res.is_voicemail = FALSE
    /\ Res.confidence.num = 0
    /\ Res.detection_method = "none"

\* C1: whenever no extractor emits a signal, and in particular when
\* answered_by, transcripts, call_duration and metadata are all absent, the
\* result has no signals, is_voicemail = false, confidence = 0.0 and
\* detection_method = "none".
C1_NoSignalNoneResult ==
    Returned => /\ NoExtractorEmits => IsNoneResult
                /\ AllAbsent => IsNoneResult

C1_Witness == Returned /\ AllAbsent /\ IsNoneResult

\* some signal of the result has this type
HasSignal(type) == \E i \in DOMAIN Res.signals : Res.signals[i].signal_type = type

\* the result has signals
HasSignals == Len(Res.signals) > 0

\* C2: for a non-empty signal list is_voicemail is exactly the predicate of
\* the configured mode: conservative, overall >= 0.75 or (number of signals >=
\* min_signals_required and overall >= 0.6) or an amd signal of confidence
\* >= 0.9; aggressive, overall >= 0.6 or a signal of confidence >= 0.85.
C2_DecisionOfMode ==
    (Returned /\ HasSignals) =>
        Res.is_voicemail =
            IF config.enable_aggressive_detection
            THEN \/ FracGE(Res.confidence, 60)
                 \/ \E i \in DOMAIN Res.signals : SignalConfidences[i] >= 85
            ELSE \/ FracGE(Res.confidence, 75)
                 \/ /\ Len(Res.signals) >= config.min_signals_required
                    /\ FracGE(Res.confidence, 60)
                 \/ \E i \in DOMAIN Res.signals :
                        SignalTypes[i] = "amd" /\ SignalConfidences[i] >= 90

\* a conservative detector decides "voicemail" on the amd rule alone
C2_Witness ==
    /\ Returned
    /\ ~config.enable_aggressive_detection
    /\ Len(Res.signals) = 2
    /\ Len(Res.signals) < config.min_signals_required
    /\ ~FracGE(Res.confidence, 75)
    /\ Res.is_voicemail

\* the weights the fused confidence is stated with, in tenths
StatedWeight(type) ==
    CASE type = "amd" -> 10
      [] type = "keyword" -> 8
      [] type = "transcript_analysis" -> 6
      [] type = "audio_pattern" -> 5

\* C3: for a non-empty signal list the confidence of the result is the
\* weighted mean sum(confidence * weight) / sum(weight) with the weights amd
\* 1.0, keyword 0.8, transcript_analysis 0.6, audio_pattern 0.5; an amd signal
\* of 0.95 and an audio_pattern signal of 0.30 fuse to 1.1 / 1.5.
C3_WeightedMean ==
    (Returned /\ HasSignals) =>
        LET num == SumSeq([i \in DOMAIN Res.signals |->
                              SignalConfidences[i] * StatedWeight(SignalTypes[i])])
            den == SumSeq([i \in DOMAIN Res.signals |-> StatedWeight(SignalTypes[i])])
        IN  /\ Res.confidence.den > 0
            /\ Res.confidence.num * den = num * Res.confidence.den
            /\ (SignalTypes = <<"amd", "audio_pattern">> /\ SignalConfidences = <<95, 30>>)
                  => Res.confidence.num * 15 = 1100 * Res.confidence.den

C3_Witness ==
    /\ Returned
    /\ SignalTypes = <<"amd", "audio_pattern">>
    /\ SignalConfidences = <<95, 30>>

\* answered_by = "machine_end_beep", no transcripts, default configuration
BeepNoTranscripts ==
    /\ config = DefaultConfig
    /\ Args.answered_by = Some(s_machine_end_beep)
    /\ Args.transcripts = None

\* C4 as stated: under the default configuration, answered_by =
\* "machine_end_beep" and no transcripts give is_voicemail = true with
\* confidence >= 0.9.
C4_AsStated ==
    (Returned /\ BeepNoTranscripts) =>
        Res.is_voicemail /\ FracGE(Res.confidence, 90)

\* C4: under the default configuration, answered_by = "machine_end_beep" and
\* no transcripts give is_voicemail = true, and the confidence is >= 0.9 when
\* the audio heuristics emit no signal.
C4_BeepAlone ==
    (Returned /\ BeepNoTranscripts) =>
        /\ Res.is_voicemail
        /\ ~AudioEmits => FracGE(Res.confidence, 90)

C4_Witness ==
    /\ Returned
    /\ BeepNoTranscripts
    /\ ~AudioEmits
    /\ Res.is_voicemail
    /\ FracGE(Res.confidence, 90)

\* answered_by is "human" in some letter case
AnsweredByHuman ==
    /\ Args.answered_by # None
    /\ Lower(Val(Args.answered_by)) = s_human

\* C5: answered_by equal to "human" in any letter case gives no amd signal,
\* whatever the transcripts; if no other extractor emits either, the result is
\* is_voicemail = false.
C5_HumanNoAmd ==
    (Returned /\ AnsweredByHuman) =>
        /\ ~HasSignal("amd")
        /\ (~KeywordEmits /\ ~TranscriptEmits /\ ~AudioEmits) => ~Res.is_voicemail

\* "Human" with transcripts that make other extractors emit
C5_Witness ==
    /\ Returned
    /\ Args.answered_by = Some(<<"H","u","m","a","n">>)
    /\ Args.transcripts # None
    /\ HasSignals
    /\ ~HasSignal("amd")

\* the confidence table of the machine values as stated, in hundredths
StatedAmdConfidence(value) ==
    CASE value = s_machine_end_beep -> 98
      [] value = s_machine_end_silence -> 92
      [] value = s_machine_start -> 90
      [] value = s_machine_end_other -> 85
      [] OTHER -> 95

\* C6: for an answered_by that contains "machine" (case-insensitive) the amd
\* confidence is machine_end_beep 0.98, machine_end_silence 0.92,
\* machine_start 0.90, machine_end_other 0.85, otherwise 0.95, and an amd
\* signal is emitted iff that confidence >= amd_confidence_threshold; a value
\* that is neither a machine value, fax nor human gives no amd signal.
C6_AmdTable ==
    (Returned /\ Args.answered_by # None) =>
        LET value == Lower(Val(Args.answered_by))
        IN  /\ Contains(value, s_machine) =>
                /\ HasSignal("amd") <=>
                       StatedAmdConfidence(value) >= config.amd_confidence_threshold
                /\ HasSignal("amd") =>
                       /\ SignalTypes[1] = "amd"
                       /\ SignalConfidences[1] = StatedAmdConfidence(value)
            /\ (~Contains(value, s_machine) /\ value # s_fax /\ value # s_human) =>
                   ~HasSignal("amd")

\* a machine value whose confidence is below the threshold
C6_Witness ==
    /\ Returned
    /\ Args.answered_by = Some(s_machine_start)
    /\ config.amd_confidence_threshold = 91
    /\ ~HasSignal("amd")

\* C7: answered_by = "fax" gives an amd signal of confidence 0.70 for every
\* amd_confidence_threshold, also for thresholds above 0.70.
C7_FaxAlways ==
    (Returned /\ Args.answered_by = Some(s_fax)) =>
        /\ HasSignals
        /\ SignalTypes[1] = "amd"
        /\ SignalConfidences[1] = 70
        /\ \A i \in DOMAIN Res.signals : SignalTypes[i] = "amd" => i = 1

C7_Witness ==
    /\ Returned
    /\ Args.answered_by = Some(s_fax)
    /\ config.amd_confidence_threshold = 99
    /\ HasSignal("amd")

\* one signal, not of type amd, of confidence exactly 0.85
SingleNonAmd85 ==
    /\ Len(Res.signals) = 1
    /\ SignalTypes[1] # "amd"
    /\ SignalConfidences[1] = 85

\* C8 as stated: a single non-amd signal of confidence exactly 0.85 gives
\* is_voicemail = true in aggressive mode and not in conservative mode.
C8_AsStated ==
    (Returned /\ SingleNonAmd85) =>
        Res.is_voicemail = config.enable_aggressive_detection

\* C8: a single non-amd signal of confidence exactly 0.85 gives is_voicemail =
\* true in aggressive mode and in conservative mode alike (its fused
\* confidence 0.85 is >= 0.75).
C8_Single85BothModes ==
    (Returned /\ SingleNonAmd85) => Res.is_voicemail

C8_Witness ==
    /\ Returned
    /\ SingleNonAmd85
    /\ SignalTypes[1] = "keyword"
    /\ ~config.enable_aggressive_detection
    /\ Res.is_voicemail

\* the order in which the extractors are evaluated
EvaluationOrder == <<"amd", "keyword", "transcript_analysis", "audio_pattern">>

\* the position of a signal type in the evaluation order
OrderOf(type) == CHOOSE k \in DOMAIN EvaluationOrder : EvaluationOrder[k] = type

\* the signals of maximal confidence
MaxSignals ==
    { i \in DOMAIN Res.signals :
        \A j \in DOMAIN Res.signals : SignalConfidences[j] <= SignalConfidences[i] }

\* C9: for a non-empty result detection_method is the type of the signal of
\* highest individual confidence, and among several of that confidence the
\* first in the order amd, keyword, transcript_analysis, audio_pattern.
C9_DetectionMethod ==
    (Returned /\ HasSignals) =>
        /\ \E i \in MaxSignals : Res.detection_method = SignalTypes[i]
        /\ \A i \in MaxSignals : OrderOf(Res.detection_method) <= OrderOf(SignalTypes[i])

\* two signals share the highest confidence
C9_Witness ==
    /\ Returned
    /\ Cardinality(MaxSignals) >= 2
    /\ Res.detection_method = "amd"

\* C10: the signals of a result hold at most one signal of each type and are
\* listed in the order amd, keyword, transcript_analysis, audio_pattern.
C10_OnePerTypeInOrder ==
    Returned =>
        /\ \A i \in DOMAIN Res.signals :
               \E k \in DOMAIN EvaluationOrder : SignalTypes[i] = EvaluationOrder[k]
        /\ \A i, j \in DOMAIN Res.signals :
               i < j => OrderOf(SignalTypes[i]) < OrderOf(SignalTypes[j])
        /\ HasSignal("amd") <=> AmdEmits
        /\ HasSignal("keyword") <=> KeywordEmits
        /\ HasSignal("transcript_analysis") <=> TranscriptEmits
        /\ HasSignal("audio_pattern") <=> AudioEmits

\* all four extractors emit
C10_Witness == Returned /\ Len(Res.signals) = 4

(***************************************************************************)
(* Properties of the statistics (checked under Spec)                       *)
(***************************************************************************)
\* voicemail_detected + human_detected + uncertain
CategorySum(stats) == stats.voicemail_detected + stats.human_detected + stats.uncertain

\* C11 (as stated): in every state between invocations total_analyzed equals
\* voicemail_detected + human_detected + uncertain, and with no reset so far
\* both equal the number N of analyze_call invocations.
C11_AsStated ==
    /\ detection_stats.total_analyzed = CategorySum(detection_stats)
    /\ reset_at = 0 =>
          /\ detection_stats.total_analyzed = Len(history)
          /\ CategorySum(detection_stats) = Len(history)

\* the signal types of an analyze_call outcome: none when it raised
TypesOf(outcome) ==
    IF outcome = None THEN {}
    ELSE { Val(outcome).signals[i].signal_type : i \in DOMAIN Val(outcome).signals }

\* the category counter the claim assigns to a returned result
CategoryOf(r) ==
    IF r.is_voicemail THEN "voicemail_detected"
    ELSE IF FracLT(r.confidence, 30) THEN "uncertain"
    ELSE "human_detected"

\* C12 (as stated): each analyze_call increments total_analyzed by one and
\* exactly one category counter (voicemail_detected if is_voicemail, else
\* uncertain if confidence < 0.3, else human_detected), increments
\* methods_used by one for exactly the signal types of the returned result,
\* and leaves every other counter unchanged.
C12_AsStated ==
    [][last_op' = "analyze_call" /\ Len(history') = Len(history) + 1 =>
        /\ detection_stats'.total_analyzed = detection_stats.total_analyzed + 1
        /\ result' # None
        /\ \A c \in {"voicemail_detected", "uncertain", "human_detected"} :
              detection_stats'[c] =
                  detection_stats[c] + (IF c = CategoryOf(Val(result')) THEN 1 ELSE 0)
        /\ \A t \in DOMAIN detection_stats.methods_used :
              detection_stats'.methods_used[t] =
                  detection_stats.methods_used[t]
                      + (IF t \in TypesOf(result') THEN 1 ELSE 0)]_vars

\* the analyze_call invocations since the latest reset_statistics
CallsSinceReset == Len(history) - reset_at

\* C13 (as stated): with analyze_call invoked from several tasks in any
\* schedule, no increment is lost (total_analyzed and the category counters
\* account for every call since the latest reset) and no get_statistics
\* returns a dict whose total_analyzed differs from voicemail_detected +
\* human_detected + uncertain.
C13_AsStated ==
    /\ detection_stats.total_analyzed = CallsSinceReset
    /\ CategorySum(detection_stats) = CallsSinceReset
    /\ (statistics # None /\ "uncertain" \in DOMAIN Val(statistics)) =>
           Val(statistics).total_analyzed = CategorySum(Val(statistics))

(***************************************************************************)
(* Properties of one analyze_call on malformed input (SpecAnalyze)         *)
(***************************************************************************)
\* a dict without its None-valued keys and without the out-of-range ones
WithoutKeys(d, bad) ==
    [k \in (DOMAIN d \ ({"null"} \cup bad)) |-> d[k]]

\* an utterance with every None or out-of-range field taken away
SaneUtterance(u) ==
    WithoutKeys(u,
        (IF "null" \in DOMAIN u THEN u["null"] ELSE {})
        \cup (IF "confidence" \in DOMAIN u /\ (u.confidence < 0 \/ u.confidence > 100)
              THEN {"confidence"} ELSE {})
        \cup (IF "start_offset" \in DOMAIN u /\ u.start_offset < 0
              THEN {"start_offset"} ELSE {}))

\* the arguments of a call with the malformed fields treated as absent
SaneArgs(args) ==
    [args EXCEPT
        !.transcripts =
            IF @ = None THEN None
            ELSE Some([i \in DOMAIN Val(@) |-> SaneUtterance(Val(@)[i])]),
        !.metadata =
            IF @ = None THEN None
            ELSE Some(WithoutKeys(Val(@),
                     IF "null" \in DOMAIN Val(@) THEN Val(@)["null"] ELSE {}))]

\* C14 (as stated): analyze_call never raises on a missing, None or
\* out-of-range utterance or metadata field; it returns the result computed
\* from the remaining data, the field treated as absent.
C14_AsStated ==
    last_op = "analyze_call" =>
        /\ ~raised
        /\ result # None
        /\ Val(result) =
               analyze_call(config, SaneArgs(Val(call)).call_sid,
                            SaneArgs(Val(call)).answered_by,
                            SaneArgs(Val(call)).transcripts,
                            SaneArgs(Val(call)).call_duration,
                            SaneArgs(Val(call)).metadata)

(***************************************************************************)
(* Properties of the detector's history (checked under Spec)               *)
(***************************************************************************)
\* C15: two analyze_call invocations with identical inputs, at any two
\* points of the detector's call and reset history, have equal outcomes:
\* is_voicemail, confidence, detection_method, metadata and the signals'
\* types, confidences and details (detected_at is not part of the model's
\* results).
C15_SameInputsSameResult ==
    \A i, j \in DOMAIN history :
        history[i].args = history[j].args => history[i].result = history[j].result

\* the same arguments analysed twice with a signal, detection_stats not the
\* same at the two invocations
C15_Witness ==
    /\ Len(history) = 2
    /\ reset_at = 0
    /\ history[1].args = history[2].args
    /\ history[1].result # None
    /\ Len(Val(history[1].result).signals) > 0

(***************************************************************************)
(* Further properties of one analyze_call (checked under SpecAnalyze)      *)
(***************************************************************************)
\* the metadata keys the audio heuristics interpret
InterpretedKeys == {"beep_detected", "trailing_silence_duration", "one_way_audio"}

\* C16 (as stated): every key of the caller's metadata other than
\* beep_detected, trailing_silence_duration and one_way_audio is in
\* result.metadata with its value unchanged, whether or not a signal is
\* emitted.
C16_AsStated ==
    (Returned /\ Args.metadata # None) =>
        \A k \in DOMAIN Val(Args.metadata) \ InterpretedKeys :
            /\ k \in DOMAIN Res.metadata
            /\ Res.metadata[k] = Val(Args.metadata)[k]

\* C17: every signal of a result has a confidence in [0, 1], and the fused
\* confidence of the result is in [0, 1], for every configuration.
C17_ConfidencesInUnitRange ==
    Returned =>
        /\ \A i \in DOMAIN Res.signals :
              0 <= Res.signals[i].confidence /\ Res.signals[i].confidence <= 100
        /\ Res.confidence.den > 0
        /\ 0 <= Res.confidence.num
        /\ Res.confidence.num <= 100 * Res.confidence.den

\* a keyword signal whose score is above 5.0, so that the cap at 1.0 acts,
\* fused with other signals
C17_Witness ==
    /\ Returned
    /\ Len(Res.signals) > 1
    /\ \E i \in DOMAIN Res.signals :
          /\ Res.signals[i].signal_type = "keyword"
          /\ Res.signals[i].details.voicemail_score > 5

(***************************************************************************)
(* Properties of reset_statistics and get_statistics (checked under Spec)  *)
(***************************************************************************)
\* every counter of detection_stats is zero
AllCountersZero ==
    /\ detection_stats.total_analyzed = 0
    /\ detection_stats.voicemail_detected = 0
    /\ detection_stats.human_detected = 0
    /\ detection_stats.uncertain = 0
    /\ \A t \in DOMAIN detection_stats.methods_used : detection_stats.methods_used[t] = 0

\* the dict get_statistics returned has total_analyzed 0 and no rates
IsSentinel(stats) ==
    /\ stats.total_analyzed = 0
    /\ DOMAIN stats \cap {"voicemail_rate", "human_rate", "uncertain_rate"} = {}

\* C18: right after reset_statistics, from any state, total_analyzed, the three
\* category counters and every methods_used counter are zero; and
\* get_statistics invoked while total_analyzed is 0 returns the sentinel
\* (total_analyzed 0, no rates).
C18_ResetAndSentinel ==
    /\ last_op = "reset_statistics" => AllCountersZero
    /\ (last_op = "get_statistics" /\ detection_stats.total_analyzed = 0) =>
           (statistics # None /\ IsSentinel(Val(statistics)))

\* get_statistics right after a reset that followed calls which counted
C18_Witness ==
    /\ last_op = "get_statistics"
    /\ reset_at = Len(history)
    /\ reset_at = MaxCalls
    /\ \E i \in DOMAIN history : history[i].result # None
    /\ AllCountersZero
    /\ IsSentinel(Val(statistics))

\* C19 (as stated): the dict get_statistics returned is a read-only
\* snapshot: its contents, methods_used included, stay as they are until the
\* caller takes a new one, whatever the detector does meanwhile; and no step
\* changes the returned dict and the detector's counters together.
C19_AsStated ==
    [][statistics # None =>
          \/ statistics' = statistics
          \/ (last_op' = "get_statistics" /\ detection_stats' = detection_stats)]_vars

(***************************************************************************)
(* The keyword extractor against its reference (checked under SpecAnalyze) *)
(***************************************************************************)
\* the reference's texts: all utterances, and those with start_offset <= 60 s
RefCombinedText(q) == Join([i \in DOMAIN q |-> Lower(Get(q[i], "text", <<>>))])

RefEarlyText(q) ==
    LET early == SelectSeq(q, LAMBDA u : Get(u, "start_offset", 0) <= 600)
    IN  Join([i \in DOMAIN early |-> Lower(Get(early[i], "text", <<>>))])

\* 2.0 for an item that matches the early text, else 1.0 for one that matches
\* only the combined text, else 0
RefWeight(in_early, in_combined) ==
    IF in_early THEN 2 ELSE IF in_combined THEN 1 ELSE 0

\* the reference's score and number of human indicators for a transcript list
RefEvidence(q) ==
    LET early == RefEarlyText(q)
        combined == RefCombinedText(q)
    IN  [score |->
             SumSeq([i \in DOMAIN VOICEMAIL_KEYWORDS |->
                        RefWeight(Contains(early, VOICEMAIL_KEYWORDS[i]),
                                  Contains(combined, VOICEMAIL_KEYWORDS[i]))])
             + SumSeq([i \in DOMAIN VOICEMAIL_PATTERNS |->
                        RefWeight(Search(VOICEMAIL_PATTERNS[i].re, early),
                                  Search(VOICEMAIL_PATTERNS[i].re, combined))]),
         humans |->
             Cardinality({ i \in DOMAIN HUMAN_INDICATORS :
                             Contains(early, HUMAN_INDICATORS[i]) })]

\* RefEvidence of every transcript list of the model, computed once
RefEvidenceTable ==
    [q \in UtteranceLists(MaxUtterances) |-> RefEvidence(q)] @@ << >>

RefEvidenceOf(q) ==
    IF q \in DOMAIN RefEvidenceTable THEN RefEvidenceTable[q] ELSE RefEvidence(q)

\* max(0, min(score / 5.0, 1.0) - 0.05 * humans), in hundredths
RefConfidence(score, humans) ==
    LET capped == IF 20 * score > 100 THEN 100 ELSE 20 * score
    IN  IF capped - 5 * humans < 0 THEN 0 ELSE capped - 5 * humans

\* the keyword signals of the result
KeywordSignals ==
    { i \in DOMAIN Res.signals : Res.signals[i].signal_type = "keyword" }

\* C20: the keyword signal of a result is the reference's: the score is the
\* sum over the literal keywords and the regular expressions of 2.0 (match in
\* the early text), 1.0 (match in the combined text only) or 0; there is no
\* signal if nothing matched; the confidence is max(0, min(score/5, 1) -
\* 0.05 * human indicators in the early text); and the signal is emitted iff
\* that confidence is at least keyword_confidence_threshold.
C20_KeywordReference ==
    Returned =>
        IF Args.transcripts = None \/ Val(Args.transcripts) = <<>>
        THEN KeywordSignals = {}
        ELSE LET ref == RefEvidenceOf(Val(Args.transcripts))
                 confidence == RefConfidence(ref.score, ref.humans)
             IN  /\ (KeywordSignals # {}) <=>
                        (ref.score > 0 /\ confidence >= config.keyword_confidence_threshold)
                 /\ \A i \in KeywordSignals :
                        /\ Res.signals[i].confidence = confidence
                        /\ Res.signals[i].details.voicemail_score = ref.score
                        /\ Len(Res.signals[i].details.human_indicators) = ref.humans

\* two early matches and no human indicator under the default thresholds:
\* score 4.0, confidence 0.8, emitted
C20_Witness ==
    /\ Returned
    /\ config = DefaultConfig
    /\ \E i \in KeywordSignals :
          /\ Res.signals[i].details.keyword_count = 2
          /\ Res.signals[i].details.voicemail_score = 4
          /\ Res.signals[i].details.human_indicators = <<>>
          /\ Res.signals[i].confidence = 80

(***************************************************************************)
(* Properties of the transcript-pattern extractor                          *)
(***************************************************************************)
\* the transcripts argument as a list, None being no utterance
ArgTranscripts == IF Args.transcripts = None THEN <<>> ELSE Val(Args.transcripts)

\* the transcript_analysis signal of the result
PatternSignal ==
    Res.signals[CHOOSE i \in DOMAIN Res.signals :
                    Res.signals[i].signal_type = "transcript_analysis"]

\* the score the statement gives each check
StatedPatternScore(name) ==
    CASE name = "monologue" -> 30
      [] name = "immediate_start" -> 20
      [] name = "high_confidence" -> 20
      [] name = "consistent_confidence" -> 15
      [] name = "typical_duration" -> 15

\* the names of the checks that fire on the transcripts of the call
FiredChecks ==
    LET m == TranscriptPatternsMatched(ArgTranscripts)
    IN  [i \in DOMAIN m |-> m[i][1]]

\* the sum of the stated scores of the checks that fire
StatedPatternSum == SumSeq([i \in DOMAIN FiredChecks |-> StatedPatternScore(FiredChecks[i])])

\* C21: after an analyze_call that returned, the result holds no
\* transcript_analysis signal when fewer than 3 utterances were passed;
\* otherwise it holds one exactly when the stated scores of the fired checks
\* sum to 0.4 or more, its confidence is min(sum, 0.95) and its details name
\* the fired checks; the transcripts of TEST010 give a signal of confidence 0.85
C21_PatternExtractor ==
    Returned =>
        /\ Len(ArgTranscripts) < 3 => ~HasSignal("transcript_analysis")
        /\ Len(ArgTranscripts) >= 3 =>
              /\ HasSignal("transcript_analysis") <=> StatedPatternSum >= 40
              /\ HasSignal("transcript_analysis") =>
                    /\ PatternSignal.confidence =
                           (IF StatedPatternSum < 95 THEN StatedPatternSum ELSE 95)
                    /\ PatternSignal.details.patterns_matched = FiredChecks
        /\ ArgTranscripts = Test010Transcripts =>
              /\ HasSignal("transcript_analysis")
              /\ PatternSignal.confidence = 85

\* TEST010 was analysed and gave a transcript_analysis signal of confidence 0.85
C21_Witness ==
    /\ Returned
    /\ ArgTranscripts = Test010Transcripts
    /\ HasSignal("transcript_analysis")
    /\ PatternSignal.confidence = 85
    /\ PatternSignal.details.patterns_matched =
           <<"monologue", "immediate_start", "high_confidence", "consistent_confidence">>

\* the start_offset of every utterance of the call, 0 where the key is missing
StartOffsets ==
    [i \in DOMAIN ArgTranscripts |-> Get(ArgTranscripts[i], "start_offset", 0)]

\* the earliest start_offset of the call
MinStartOffset ==
    CHOOSE m \in { StartOffsets[i] : i \in DOMAIN StartOffsets } :
        \A i \in DOMAIN StartOffsets : m <= StartOffsets[i]

\* the check immediate_start fires on the list q
ImmediateStartFires(q) ==
    \E i \in DOMAIN TranscriptPatternsMatched(q) :
        TranscriptPatternsMatched(q)[i][1] = "immediate_start"

\* the list q in the order p
Reordered(q, p) == [i \in DOMAIN q |-> q[p[i]]]

\* C22: after an analyze_call that returned on 3 or more utterances, the
\* check immediate_start fired exactly when the earliest start_offset of the
\* utterances is below 2.0 seconds, and it fires alike on every reordering
\* of the list (statement as claimed)
C22_AsStated ==
    (Returned /\ Len(ArgTranscripts) >= 3) =>
        /\ ImmediateStartFires(ArgTranscripts) <=> MinStartOffset < 20
        /\ HasSignal("transcript_analysis") =>
              ((\E i \in DOMAIN PatternSignal.details.patterns_matched :
                    PatternSignal.details.patterns_matched[i] = "immediate_start")
                  <=> MinStartOffset < 20)
        /\ \A p \in Permutations(DOMAIN ArgTranscripts) :
              ImmediateStartFires(Reordered(ArgTranscripts, p))
                  <=> ImmediateStartFires(ArgTranscripts)

(***************************************************************************)
(* Properties of the audio-heuristic extractor                             *)
(***************************************************************************)
\* the metadata argument as a dict, None being the empty one
ArgMetadata == IF Args.metadata = None THEN << >> ELSE Val(Args.metadata)

\* the audio_pattern signal of the result
AudioSignal ==
    Res.signals[CHOOSE i \in DOMAIN Res.signals :
                    Res.signals[i].signal_type = "audio_pattern"]

\* the score of the statement: 0.40, 0.30, 0.20, and 0.15 for every present
\* call_duration below 60
StatedAudioScore ==
    (IF Get(ArgMetadata, "beep_detected", FALSE) = TRUE THEN 40 ELSE 0)
  + (IF Get(ArgMetadata, "trailing_silence_duration", 0) > 3 THEN 30 ELSE 0)
  + (IF Get(ArgMetadata, "one_way_audio", FALSE) = TRUE THEN 20 ELSE 0)
  + (IF Args.call_duration # None /\ Val(Args.call_duration) < 60 THEN 15 ELSE 0)

\* C23: after an analyze_call that returned, the result holds an
\* audio_pattern signal exactly when the stated score is 0.3 or more, and the
\* confidence of the signal is min(score, 0.9) (statement as claimed)
C23_AsStated ==
    Returned =>
        /\ HasSignal("audio_pattern") <=> StatedAudioScore >= 30
        /\ HasSignal("audio_pattern") =>
              AudioSignal.confidence =
                  (IF StatedAudioScore < 90 THEN StatedAudioScore ELSE 90)

(***************************************************************************)
(* Properties of retry_call_background (checked under SpecRetry)           *)
(***************************************************************************)
\* the number of retry calls placed for the call call_sid among placed
PlacedFor(call_sid, placed) ==
    Cardinality({ i \in DOMAIN placed : placed[i].retry_of_call_sid = call_sid })

\* the stored retry_count of the call call_sid in the collection calls
StoredRetryCount(calls, call_sid) ==
    IF call_sid \in DOMAIN calls THEN Get(calls[call_sid], "retry_count", 0) ELSE 0

\* C24: over the invocations of retry_call_background at most max_attempts
\* retry calls are placed for one call_sid, none is placed once the stored
\* retry_count has reached max_attempts, and the invocation that places a
\* retry call stores a record of it and increments the retry_count of the
\* original call by exactly one (statement as claimed)
C24_AsStated ==
    [][ /\ \A sid \in RetrySids : PlacedFor(sid, outbound') <= MaxAttempts
        /\ \A sid \in RetrySids :
              StoredRetryCount(db_calls, sid) >= MaxAttempts
                  => PlacedFor(sid, outbound') = PlacedFor(sid, outbound)
        /\ Len(outbound') = Len(outbound) + 1 =>
              LET placed == outbound'[Len(outbound')]
              IN  /\ placed.twilio_sid \in DOMAIN db_calls'
                  /\ StoredRetryCount(db_calls', placed.retry_of_call_sid)
                         = StoredRetryCount(db_calls, placed.retry_of_call_sid) + 1
      ]_vars

(***************************************************************************)
(* Properties of the decision policies                                     *)
(***************************************************************************)
\* is_voicemail as _combine_signals decides it on the signals of the result,
\* in the given mode and with the given min_signals_required
DecisionIn(aggressive, min_signals) ==
    _combine_signals([config EXCEPT !.enable_aggressive_detection = aggressive,
                                    !.min_signals_required = min_signals],
                     Args.call_sid, Res.signals, ArgMetadata).is_voicemail

\* the values of min_signals_required compared
MinSignalsValues == 0..5

\* C25: on the signals of every returned call and for every value of
\* min_signals_required, is_voicemail in conservative mode implies
\* is_voicemail in aggressive mode
C25_AggressiveNotStricter ==
    (Returned /\ HasSignals) =>
        \A n \in MinSignalsValues : DecisionIn(FALSE, n) => DecisionIn(TRUE, n)

\* a call that conservative mode decides by its AMD rule alone (overall
\* confidence below 0.75, fewer signals than required) and that aggressive
\* mode decides as voicemail too
C25_Witness ==
    /\ Returned
    /\ HasSignals
    /\ ~FracGE(Res.confidence, 75)
    /\ Len(Res.signals) < config.min_signals_required
    /\ DecisionIn(FALSE, config.min_signals_required)
    /\ DecisionIn(TRUE, config.min_signals_required)

(***************************************************************************)
(* Monotonicity of the fusion                                              *)
(***************************************************************************)
\* the arguments of analyze_call that carry evidence
EvidenceArguments == {"answered_by", "transcripts", "metadata"}

\* the call args with the arguments in drop passed as None
Without(args, drop) ==
    [args EXCEPT !.answered_by = IF "answered_by" \in drop THEN None ELSE @,
                 !.transcripts = IF "transcripts" \in drop THEN None ELSE @,
                 !.metadata = IF "metadata" \in drop THEN None ELSE @]

\* what analyze_call returns on args under the configuration of the state
ResultOn(args) ==
    analyze_call(config, args.call_sid, args.answered_by, args.transcripts,
                 args.call_duration, args.metadata)

\* r is the result of a call that emitted some, but not all, of the signals
\* of the call of the state, and is_voicemail was true on it
VoicemailOnFewer(r) ==
    /\ Len(r.signals) > 0
    /\ Len(r.signals) < Len(Res.signals)
    /\ r.is_voicemail

\* C26: under the default configuration, when the call of the state with
\* some of its evidence left out yields is_voicemail=true, the call itself,
\* which emits the same signals and more, yields is_voicemail=true
\* (statement as claimed)
C26_AsStated ==
    (Returned /\ config = DefaultConfig) =>
        \A drop \in (SUBSET EvidenceArguments) \ {{}} :
            VoicemailOnFewer(ResultOn(Without(Args, drop))) => Res.is_voicemail

\* the signals of the call of the state that r does not hold
AdditionalSignals(r) ==
    { i \in DOMAIN Res.signals :
        \A j \in DOMAIN r.signals :
            r.signals[j].signal_type # Res.signals[i].signal_type }

\* r holds an AMD signal of confidence 0.9 or more
StrongAmdIn(r) ==
    \E j \in DOMAIN r.signals :
        r.signals[j].signal_type = "amd" /\ r.signals[j].confidence >= 90

\* C26 (amended): the same, provided the fewer signals hold an AMD signal of
\* confidence 0.9 or more, or every additional signal has a confidence of
\* 0.6 or more
C26_MonotoneWithStrongAmd ==
    (Returned /\ config = DefaultConfig) =>
        \A drop \in (SUBSET EvidenceArguments) \ {{}} :
            LET r == ResultOn(Without(Args, drop))
            IN  (/\ VoicemailOnFewer(r)
                 /\ \/ StrongAmdIn(r)
                    \/ \A i \in AdditionalSignals(r) : Res.signals[i].confidence >= 60)
                    => Res.is_voicemail

\* a call whose AMD signal of 0.9 or more alone is voicemail, and that stays
\* voicemail with an additional signal of confidence below 0.6 that takes
\* the fused confidence below 0.75
C26_Witness ==
    /\ Returned
    /\ config = DefaultConfig
    /\ Res.is_voicemail
    /\ ~FracGE(Res.confidence, 75)
    /\ \E drop \in (SUBSET EvidenceArguments) \ {{}} :
          LET r == ResultOn(Without(Args, drop))
          IN  /\ VoicemailOnFewer(r)
              /\ StrongAmdIn(r)
              /\ \E i \in AdditionalSignals(r) : Res.signals[i].confidence < 60

\* the result holds an AMD signal of confidence 0.9 or more
StrongAmd == StrongAmdIn(Res)

\* C27: under the default configuration is_voicemail is true exactly when
\* the fused confidence is 0.6 or more, and wherever the fused confidence is
\* 0.75 or more or an AMD signal is 0.9 or more, the fused confidence is 0.6
\* or more
C27_DefaultIsSixTenths ==
    (Returned /\ config = DefaultConfig) =>
        /\ Res.is_voicemail <=> FracGE(Res.confidence, 60)
        /\ (FracGE(Res.confidence, 75) \/ StrongAmd) => FracGE(Res.confidence, 60)

\* the default detector decided voicemail on an AMD signal of 0.90 fused with
\* two weak signals to less than 0.65
C27_Witness ==
    /\ Returned
    /\ config = DefaultConfig
    /\ StrongAmd
    /\ Len(Res.signals) = 3
    /\ ~FracGE(Res.confidence, 65)
    /\ Res.is_voicemail

(***************************************************************************)
(* Properties of the metadata of the result                                *)
(***************************************************************************)
\* C28: the diagnostic fields of the metadata of a result describe the
\* result: call_sid is the call_sid argument and, where signals were
\* emitted, signal_types lists the types of the signals of the result and
\* weighted_confidence is its confidence, whatever keys the metadata
\* argument holds (statement as claimed)
C28_AsStated ==
    Returned =>
        /\ Res.metadata.call_sid = Args.call_sid
        /\ HasSignals =>
              /\ Res.metadata.signal_types = SignalTypes
              /\ Res.metadata.weighted_confidence = Res.confidence

(***************************************************************************)
(* Utterances that carry only text                                         *)
(***************************************************************************)
\* three or more utterances, each with the key text alone, whose texts hold
\* no voicemail keyword or pattern; no AMD result and no metadata
TextOnlyCall ==
    /\ Args.answered_by = None
    /\ Args.metadata = None
    /\ Len(ArgTranscripts) >= 3
    /\ \A i \in DOMAIN ArgTranscripts : DOMAIN ArgTranscripts[i] = {"text"}
    /\ KeywordEvidenceOf(ArgTranscripts).voicemail_matches = <<>>

\* C29: under the default configuration analyze_call returns
\* is_voicemail=false on such a call (statement as claimed)
C29_AsStated ==
    (Returned /\ config = DefaultConfig /\ TextOnlyCall) => ~Res.is_voicemail

(***************************************************************************)
(* The uncertain counter                                                   *)
(***************************************************************************)
\* the number of signals the extractors emitted in the calls counted by
\* detection_stats
SignalsEmitted ==
    detection_stats.methods_used["amd"] + detection_stats.methods_used["keyword"]
        + detection_stats.methods_used["transcript_analysis"]
        + detection_stats.methods_used["audio_pattern"]

\* C30: after one analyze_call on a detector of the default configuration,
\* a non-empty signal list has fused to 0.3 or more, the uncertain counter
\* is 1 exactly when no signal was emitted, and a call with answered_by
\* "human" and no other evidence is counted as uncertain and not as
\* human_detected (statement as claimed)
C30_AsStated ==
    (history # <<>> /\ config = DefaultConfig) =>
        /\ (Returned /\ HasSignals) => FracGE(Res.confidence, 30)
        /\ detection_stats.uncertain = 1 <=> SignalsEmitted = 0
        /\ (Args.answered_by = Some(s_human) /\ Args.transcripts = None
               /\ Args.metadata = None)
              => (detection_stats.uncertain = 1 /\ detection_stats.human_detected = 0)
====
